---- MODULE Spec2Model ----
(***************************************************************************)
(* Component helpers of webrun: the host-side bridges (property, method,   *)
(* event) that drive a custom element living in a remote browser document, *)
(* the retry engine behind getProperty, and the registry the bridges keep  *)
(* in the remote document (window.__componentHelpers).                     *)
(*                                                                         *)
(* Strings that the code builds by concatenation (registry keys, error     *)
(* messages) are sequences of tokens, built here by the same               *)
(* concatenations.  JavaScript values are records [t, v, id]: the type     *)
(* tag, an integer payload, and the registry key a tracking function       *)
(* closes over.                                                            *)
(***************************************************************************)
EXTENDS Integers, Sequences, FiniteSets, TLC

\* ------------------------------------------------------------------ bounds
MaxTimeout == 2      \* largest timeout option tried (clock units)
MaxInterval == 2     \* largest interval option tried
MaxLatency == 1      \* longest round trip of one remote read
MaxEvents == 3       \* occurrences of an event / invocations of a callback
MaxSpies == 2        \* spyOn activations in one scenario
MaxClock == 2        \* the clock of the callback scenarios stops here

\* ------------------------------------------------------------ JS values
Undefined == [t |-> "undefined", v |-> 0, id |-> <<>>]
Null == [t |-> "null", v |-> 0, id |-> <<>>]
Bool(b) == [t |-> "boolean", v |-> IF b THEN 1 ELSE 0, id |-> <<>>]
Num(n) == [t |-> "number", v |-> n, id |-> <<>>]
\* the strings of the model: 0 is the empty string, 1.. are non-empty ones
Str(i) == [t |-> "string", v |-> i, id |-> <<>>]
\* the tracking function installed under registry key callId
Fn(callId) == [t |-> "function", v |-> 0, id |-> callId]

\* the JSON text of string i, quotes included
StrJson(i) == IF i = 0 THEN "\"\"" ELSE IF i = 1 THEN "\"a\"" ELSE "\"b\""

\* JSON.stringify(value) inside a template literal
JsonStringify(value) ==
  CASE value.t = "undefined" -> "undefined"
    [] value.t = "function" -> "undefined"
    [] value.t = "null" -> "null"
    [] value.t = "boolean" -> IF value.v = 1 THEN "true" ELSE "false"
    [] value.t = "number" -> ToString(value.v)
    [] value.t = "string" -> StrJson(value.v)

\* what page.evaluate hands back for a remote value: a function is not
\* serializable and arrives as undefined
Marshal(value) == IF value.t = "function" THEN Undefined ELSE value

\* -------------------------------------------------------------- document
Nodes == {1, 2}
NoNode == 0
\* every node of the model is an <x> element; "y" matches nothing
TagOf(n) == "x"
Selectors == {<<"x">>, <<"y">>}
PropNames == {"value", "onClick"}
EventNames == {"change", "input"}

VARIABLES
  now,        \* Date.now(), shared by host and remote document
  order,      \* the nodes attached to the document, in document order
  props,      \* props[n][name]: the element's own properties
  listeners,  \* listeners[n]: registered listeners, in registration order
  spyAttr,    \* spyAttr[n]: the data-spy-id attribute ("": absent)
  helpers,    \* window.__componentHelpers
  opts,       \* the arguments of the getProperty call under way
  pc,         \* where the getProperty call stands
  startTime,  \* retry: const startTime
  lastError,  \* retry: let lastError (<<>>: undefined)
  pending,    \* the outcome of the remote read that is in flight
  result,     \* how the call ended: value returned or error thrown
  log,        \* observation: "attempt" and "delay", in the order retry made them
  firstRead,  \* observation: what the first attempt's remote read produced
  lastAttempt, \* observation: the read and the failure of the latest attempt
  errsDiffer, \* observation: two attempts have failed with different messages
  settledAt,  \* observation: since when the target has been acceptable (-1: is not)
  everAccepted, \* observation: the target was acceptable at some instant of the call
  nextSpyId,  \* the random locator ids drawn so far (each draw is fresh)
  spies,      \* the accessors the host holds, with what each should have seen
  lastRead,   \* the latest read through an accessor
  dispatched, \* observation: how many events the page has dispatched
  bridgeError, \* the error the latest one-shot bridge call threw (<<>>: none)
  invoked,    \* observation: per tracked key, the argument lists of the
              \* invocations since the function was set
  lastCalls,  \* the latest getFunctionCalls, as observed
  invocations, \* observation: how many times the page has invoked a callback
  text,       \* text[n]: the text the element shows in its #result child
  callReturn, \* how the latest call / callMethod ended
  ran,        \* observation: how many members have run, and the latest run's
              \* receiver, member and arguments
  lastOp,     \* observation: the latest one-shot bridge call: which, on what
              \* selector, and how many remote functions it submitted
  lastEmit,   \* observation: the latest emit, with the event it dispatched
  waiter,     \* the waitForEvent under way: its promise, listener and timer
  reads,      \* observation: the list the latest accessor call returned, with
              \* the dispatch and activation counts of that moment
  wrapper,    \* the assertion wrapper: its two module variables, the assertion
              \* object the factory made last, and how the latest matcher ran
  marks       \* observation: the key whose history the latest clear emptied,
              \* whether a render followed, and how many spies had been obtained
              \* at the latest render

docVars == <<order, props, listeners, spyAttr, helpers>>
obsVars == <<log, firstRead, lastAttempt, errsDiffer>>
callVars == <<opts, pc, startTime, lastError, pending, result, obsVars, settledAt, everAccepted>>
spyVars == <<nextSpyId, spies, lastRead, dispatched>>
\* the host side of the one-shot bridges, untouched by getProperty
trackVars == <<invoked, lastCalls, invocations>>
\* the assertion wrapper and what is noted of the page's history
laterVars == <<wrapper, marks>>
\* the method and event bridges and the element state they act on
extVars == <<text, callReturn, ran, lastOp, lastEmit, waiter, reads, laterVars>>
bridgeVars == <<spyVars, bridgeError, trackVars, extVars>>
vars == <<now, docVars, callVars, bridgeVars>>

RECURSIVE FirstMatch(_, _)
FirstMatch(seq, tag) ==
  IF seq = <<>> THEN NoNode
  ELSE IF tag = "*" \/ TagOf(Head(seq)) = tag THEN Head(seq)
  ELSE FirstMatch(Tail(seq), tag)

RECURSIVE FirstWithSpyId(_, _, _)
FirstWithSpyId(seq, attrs, id) ==
  IF seq = <<>> THEN NoNode
  ELSE IF attrs[Head(seq)] = id THEN Head(seq)
  ELSE FirstWithSpyId(Tail(seq), attrs, id)

\* `[data-spy-id="${locatorId}"]`
SpySelector(locatorId) == <<"[data-spy-id=\"", locatorId, "\"]">>

\* querySelector in a document with the given data-spy-id attributes: sel is
\* a tag selector or a data-spy-id selector
QuerySelectorIn(attrs, sel) ==
  IF Len(sel) = 1 THEN FirstMatch(order, sel[1])
  ELSE IF Len(sel) = 3 /\ sel = SpySelector(sel[2]) THEN FirstWithSpyId(order, attrs, sel[2])
  ELSE NoNode

\* variant: the node found first is kept, whatever the document holds now
QuerySelectorCached(sel) ==
  IF Len(sel) = 1 /\ (sel[1] = "*" \/ TagOf(1) = sel[1]) THEN 1 ELSE NoNode

\* document.querySelector(sel)
QuerySelector(sel) == QuerySelectorIn(spyAttr, sel)

\* ----------------------------------------------------------- outcomes
Ok(value) == [ok |-> TRUE, val |-> value, msg |-> <<>>]
Throw(message) == [ok |-> FALSE, val |-> Undefined, msg |-> message]
NoOutcome == [ok |-> FALSE, val |-> Undefined, msg |-> <<>>]

ElementNotFound(sel) == <<"Element not found: ">> \o sel

\* ----------------------------------------------------------- predicates
\* The predicates a caller passes.  "ge2" is (value) => value >= 2 and
\* "hasLength" is (value) => value.length > 0, which throws a TypeError on
\* undefined and null.  The outcome is "true", "false" or "throw".
Predicates == {"ge2", "hasLength"}
PredicateThrown == <<"Cannot read properties of undefined (reading 'length')">>

PredEval(pred, value) ==
  CASE pred = "ge2" ->
         IF value.t = "number" /\ value.v >= 2 THEN "true" ELSE "false"
    [] pred = "hasLength" ->
         IF value.t \in {"undefined", "null"} THEN "throw"
         ELSE IF value.t = "string" /\ value.v > 0 THEN "true"
         ELSE "false"

\* --------------------------------------------------------- retry engine
\* variant: the deadline has to be passed, not reached
TimedOutStrictly(t, start, timeout) == t - start > timeout

\* variant: no budget, the first failure is final
TimedOutAtOnce(t, start, timeout) == t - start >= 0

\* Date.now() - startTime >= timeout
TimedOut(t, start, timeout) == t - start >= timeout

\* `Timeout ${timeout}ms exceeded ${errorMessage}. ${lastError.message}`
Exceeded == "ms exceeded "
TimeoutMessage(timeout, errorMessage, lastMessage) ==
  <<"Timeout ", ToString(timeout), Exceeded>> \o errorMessage \o <<". ">> \o lastMessage

\* variant: only the first failure is kept
CatchErrorKeepsFirst(previous, error) == IF previous = <<>> THEN error ELSE previous

\* lastError = error as Error
CatchError(previous, error) == error

\* ---------------------------------------------------------- getProperty
\* the remote function of getProperty(page, selector, name)
ReadBySelector(sel, prop) ==
  LET element == QuerySelector(sel) IN
    IF element = NoNode THEN Throw(ElementNotFound(sel))
    ELSE Ok(Marshal(props[element][prop]))

\* the remote function of getPropertyFromLocator: the locator has resolved
ReadByLocator(element, prop) == Ok(Marshal(props[element][prop]))

CurrentValue == "Current value: "
\* variant: the value is left out of the message
PredicateNotSatisfiedBare(value) == <<"Predicate not satisfied. ">>

PredicateNotSatisfied(value) ==
  <<"Predicate not satisfied. ", CurrentValue, JsonStringify(value)>>
PropertyIsUndefined == <<"Property is undefined">>

\* variant: without predicate every falsy value is refused (if (!value))
CheckValueFalsy(hasPredicate, pred, value) ==
  IF hasPredicate THEN
    CASE PredEval(pred, value) = "true" -> Ok(value)
      [] PredEval(pred, value) = "false" -> Throw(PredicateNotSatisfied(value))
      [] PredEval(pred, value) = "throw" -> Throw(PredicateThrown)
  ELSE IF value.t \in {"undefined", "null"} \/ (value.t # "function" /\ value.v = 0)
       THEN Throw(PropertyIsUndefined)
  ELSE Ok(value)

\* variant: without predicate the value is not checked at all
CheckValueUnchecked(hasPredicate, pred, value) ==
  IF hasPredicate THEN
    CASE PredEval(pred, value) = "true" -> Ok(value)
      [] PredEval(pred, value) = "false" -> Throw(PredicateNotSatisfied(value))
      [] PredEval(pred, value) = "throw" -> Throw(PredicateThrown)
  ELSE Ok(value)

\* the host-side check of the value an attempt has read
CheckValue(hasPredicate, pred, value) ==
  IF hasPredicate THEN
    CASE PredEval(pred, value) = "true" -> Ok(value)
      [] PredEval(pred, value) = "false" -> Throw(PredicateNotSatisfied(value))
      [] PredEval(pred, value) = "throw" -> Throw(PredicateThrown)
  ELSE IF value = Undefined THEN Throw(PropertyIsUndefined)
  ELSE Ok(value)

\* one attempt: the remote read, then the check
AttemptOutcome(read, hasPredicate, pred) ==
  IF read.ok THEN CheckValue(hasPredicate, pred, read.val) ELSE read

ToSatisfy == "to satisfy predicate"
ToBeDefined == "to be defined"

\* errorMessage of getProperty(page, selector, name)
SelectorLabel(hasPredicate, sel, prop) ==
  <<"waiting for property \"", prop, "\" on \"">> \o sel
    \o <<"\" ", IF hasPredicate THEN ToSatisfy ELSE ToBeDefined>>

\* variant: the locator form always uses the no-predicate label
LocatorLabelDefined(hasPredicate, prop) ==
  <<"waiting for property \"", prop, "\" ", ToBeDefined>>

\* errorMessage of getPropertyFromLocator
LocatorLabel(hasPredicate, prop) ==
  <<"waiting for property \"", prop, "\" ",
    IF hasPredicate THEN ToSatisfy ELSE ToBeDefined>>

ErrorLabel(o) ==
  IF o.form = "locator" THEN LocatorLabel(o.hasPredicate, o.prop)
  ELSE SelectorLabel(o.hasPredicate, o.sel, o.prop)

\* ------------------------------------------------- window.__componentHelpers
EmptyMap == [k \in {} |-> <<>>]
\* window.__componentHelpers is undefined
NoHelpers ==
  [exists |-> FALSE, hasCalls |-> FALSE, calls |-> EmptyMap,
   hasEvents |-> FALSE, events |-> EmptyMap]

\* ------------------------------------------------------- the remote page
\* the values the component under test gives its "value" property
TargetValues == {Undefined, Null, Bool(FALSE), Num(0), Num(2), Str(0), Str(1)}
\* the element the getProperty scenarios read
TargetNodes == {1}

InitDocument ==
  /\ now = 0
  /\ props = [n \in Nodes |-> [name \in PropNames |-> Undefined]]
  /\ listeners = [n \in Nodes |-> <<>>]
  /\ spyAttr = [n \in Nodes |-> ""]
  /\ helpers = NoHelpers

NoOpts ==
  [form |-> "selector", sel |-> <<"x">>, prop |-> "value", hasPredicate |-> FALSE,
   pred |-> "none", timeout |-> 0, interval |-> 1]

\* getProperty's options: timeout, interval, predicate?
GetOptions ==
  { [form |-> f, sel |-> <<"x">>, prop |-> "value", hasPredicate |-> pr # "none",
     pred |-> pr, timeout |-> t, interval |-> i] :
      f \in {"selector", "locator"}, pr \in Predicates \cup {"none"},
      t \in 0..MaxTimeout, i \in 1..MaxInterval }

InitCall ==
  /\ opts = NoOpts
  /\ pc = "idle"
  /\ startTime = 0
  /\ lastError = <<>>
  /\ pending = NoOutcome
  /\ result = NoOutcome
  /\ log = <<>>
  /\ firstRead = NoOutcome
  /\ lastAttempt = [read |-> NoOutcome, msg |-> <<>>]
  /\ errsDiffer = FALSE
  /\ settledAt = -1
  /\ everAccepted = FALSE

\* the remote read of one attempt of the call under way
ReadTarget ==
  IF opts.form = "locator" THEN ReadByLocator(QuerySelector(opts.sel), opts.prop)
  ELSE ReadBySelector(opts.sel, opts.prop)

\* a locator's evaluate waits until its element is attached
CanRead == opts.form = "locator" => QuerySelector(opts.sel) # NoNode

\* observation: would an attempt reading now succeed
Acceptable ==
  /\ pc # "idle"
  /\ CanRead
  /\ AttemptOutcome(ReadTarget, opts.hasPredicate, opts.pred).ok

\* observation: the instant since which the target has stayed acceptable
Settle ==
  /\ settledAt' = IF Acceptable' THEN (IF settledAt = -1 THEN now ELSE settledAt) ELSE -1
  /\ everAccepted' = (everAccepted \/ Acceptable')

\* the component sets one of its properties (a timer, a setter, a handler)
ComponentSets(n, name, value) ==
  /\ props[n][name] # value
  /\ props' = [props EXCEPT ![n][name] = value]
  /\ UNCHANGED <<now, order, listeners, spyAttr, helpers>>
  /\ UNCHANGED <<opts, pc, startTime, lastError, pending, result, obsVars>>
  /\ UNCHANGED bridgeVars
  /\ Settle

\* the page appends element n to the document
Attach(n) ==
  /\ \A i \in 1..Len(order) : order[i] # n
  /\ order' = Append(order, n)
  /\ UNCHANGED <<now, props, listeners, spyAttr, helpers>>
  /\ UNCHANGED <<opts, pc, startTime, lastError, pending, result, obsVars>>
  /\ UNCHANGED bridgeVars
  /\ Settle

\* the page removes element n from the document
Detach(n) ==
  /\ \E i \in 1..Len(order) : order[i] = n
  /\ order' = SelectSeq(order, LAMBDA m : m # n)
  /\ UNCHANGED <<now, props, listeners, spyAttr, helpers>>
  /\ UNCHANGED <<opts, pc, startTime, lastError, pending, result, obsVars>>
  /\ UNCHANGED bridgeVars
  /\ Settle

\* getProperty(ref, name, options) up to retry's first attempt
GetProperty(o) ==
  /\ pc = "idle"
  /\ opts' = o
  /\ startTime' = now
  /\ lastError' = <<>>
  /\ pc' = "attempt"
  /\ UNCHANGED <<now, docVars, pending, result, obsVars>>
  /\ UNCHANGED bridgeVars
  /\ Settle

\* retry: fn() submits the remote read, which runs in the page
AttemptRead ==
  /\ pc = "attempt"
  /\ CanRead
  /\ pending' = ReadTarget
  /\ pc' = "inflight"
  /\ firstRead' = IF log = <<>> THEN pending' ELSE firstRead
  /\ UNCHANGED <<now, docVars, opts, startTime, lastError, result, settledAt, everAccepted>>
  /\ UNCHANGED <<log, lastAttempt, errsDiffer>>
  /\ UNCHANGED bridgeVars

\* retry: the read comes back after d, the value is checked; on failure the
\* catch block stores the error and compares the clock with the deadline
AttemptReturn(d) ==
  /\ pc = "inflight"
  /\ now' = now + d
  /\ LET out == AttemptOutcome(pending, opts.hasPredicate, opts.pred) IN
       /\ log' = Append(log, "attempt")
       /\ lastAttempt' = [read |-> pending, msg |-> out.msg]
       /\ errsDiffer' = (errsDiffer \/ (~out.ok /\ log # <<>> /\ lastAttempt.msg # out.msg))
       /\ IF out.ok
          THEN /\ pc' = "returned"
               /\ result' = out
               /\ UNCHANGED lastError
          ELSE /\ lastError' = CatchError(lastError, out.msg)
               /\ IF TimedOut(now', startTime, opts.timeout)
                  THEN /\ pc' = "failed"
                       /\ result' = Throw(TimeoutMessage(opts.timeout, ErrorLabel(opts), lastError'))
                  ELSE /\ pc' = "wait"
                       /\ UNCHANGED result
  /\ pending' = NoOutcome
  /\ UNCHANGED <<docVars, opts, startTime, firstRead, settledAt, everAccepted>>
  /\ UNCHANGED bridgeVars

\* variant: the wait grows with the number of attempts made
WaitWithBackoff ==
  /\ pc = "wait"
  /\ now' = now + opts.interval * ((Len(log) + 1) \div 2)
  /\ pc' = "attempt"
  /\ log' = Append(log, "delay")
  /\ UNCHANGED <<docVars, opts, startTime, lastError, pending, result, settledAt, everAccepted>>
  /\ UNCHANGED <<firstRead, lastAttempt, errsDiffer>>
  /\ UNCHANGED bridgeVars

\* retry: await waitBetweenRetries(), i.e. page.waitForTimeout(interval)
WaitBetweenRetries ==
  /\ pc = "wait"
  /\ now' = now + opts.interval
  /\ pc' = "attempt"
  /\ log' = Append(log, "delay")
  /\ UNCHANGED <<docVars, opts, startTime, lastError, pending, result, settledAt, everAccepted>>
  /\ UNCHANGED <<firstRead, lastAttempt, errsDiffer>>
  /\ UNCHANGED bridgeVars

\* new CustomEvent(type, { detail }): the flags default to false
NewEvent(type, detail) ==
  [type |-> type, detail |-> detail, bubbles |-> FALSE, cancelable |-> FALSE,
   composed |-> FALSE]

\* emit's options: each flag is given as true or false, or omitted
NoOptions == [bubbles |-> "omitted", cancelable |-> "omitted", composed |-> "omitted"]
\* no emit has been made
NoEmit ==
  [seq |-> 0, node |-> NoNode, type |-> "", detail |-> Undefined, options |-> NoOptions,
   event |-> NewEvent("", Undefined)]
NoRecord ==
  [type |-> "", detail |-> Undefined, timestamp |-> 0, bubbles |-> FALSE,
   cancelable |-> FALSE, composed |-> FALSE]
\* no waitForEvent is under way: pc is the promise's state, timer the instant
\* the timeout is due (-1: none pending), listening whether the handler is
\* registered, due the instant the timeout was set for; calls counts resolve()
\* and reject(), early the occurrences of the awaited event while the promise
\* was pending, first the earliest of them
NoWaiter ==
  [pc |-> "idle", node |-> NoNode, event |-> "", timer |-> -1, due |-> -1,
   listening |-> FALSE, record |-> NoRecord, msg |-> <<>>, calls |-> 0, early |-> 0,
   first |-> Undefined]

\* let pageContext: Page | null = null; let autoVrtEnabled = false
NoMatcher ==
  [via |-> "", method |-> "", real |-> "", result |-> "", trace |-> <<>>, target |-> "",
   capture |-> "", context |-> FALSE]
InitWrapper ==
  wrapper = [autoVrtEnabled |-> FALSE, pageContext |-> FALSE, made |-> FALSE,
             wrapped |-> FALSE, actual |-> "", calls |-> 0, captures |-> 0,
             last |-> NoMatcher]
InitMarks ==
  marks = [cleared |-> <<>>, rendered |-> FALSE, spies |-> 0]

InitBridges ==
  /\ nextSpyId = 0
  /\ spies = <<>>
  /\ lastRead = [spy |-> 0, count |-> 0, complete |-> TRUE]
  /\ dispatched = 0
  /\ bridgeError = <<>>
  /\ invoked = EmptyMap
  /\ lastCalls = [key |-> <<>>, count |-> 0, complete |-> TRUE, held |-> ""]
  /\ invocations = 0
  /\ text = [n \in Nodes |-> 0]
  /\ callReturn = [seq |-> 0, form |-> "", node |-> NoNode, member |-> "", args |-> <<>>,
                   out |-> NoOutcome, same |-> TRUE]
  /\ ran = [count |-> 0, receiver |-> NoNode, member |-> "", args |-> <<>>]
  /\ lastOp = [kind |-> "", sel |-> <<>>, submissions |-> 0]
  /\ lastEmit = NoEmit
  /\ waiter = NoWaiter
  /\ reads = [n |-> 0, spy |-> 0, list |-> <<>>, before |-> 0, at |-> 0, acts |-> 0]
  /\ InitWrapper
  /\ InitMarks

Init ==
  /\ InitDocument
  /\ order \in {<<>>, <<1>>}
  /\ InitCall
  /\ InitBridges

\* the scenario is watched until the call settles
Settled == pc \in {"returned", "failed"}

Next ==
  \/ \E n \in TargetNodes, value \in TargetValues : ~Settled /\ ComponentSets(n, "value", value)
  \/ \E n \in TargetNodes : ~Settled /\ Attach(n)
  \/ \E n \in TargetNodes : ~Settled /\ Detach(n)
  \/ \E o \in GetOptions : GetProperty(o)
  \/ AttemptRead
  \/ \E d \in 0..MaxLatency : AttemptReturn(d)
  \/ WaitBetweenRetries

Spec == Init /\ [][Next]_vars

\* ===================================================== getProperty / retry
Contains(msg, token) == \E i \in 1..Len(msg) : msg[i] = token
IsInfix(part, msg) ==
  \E i \in 0..(Len(msg) - Len(part)) : \A j \in 1..Len(part) : msg[i + j] = part[j]
IsSuffix(part, msg) ==
  /\ Len(part) <= Len(msg)
  /\ \A j \in 1..Len(part) : msg[Len(msg) - Len(part) + j] = part[j]

\* the acceptance condition as the documentation states it
Accepts(o, value) ==
  IF o.hasPredicate THEN PredEval(o.pred, value) = "true" ELSE value # Undefined
Elapsed == now - startTime

\* C3: a first remote read that already satisfies the acceptance condition
\* makes getProperty return that value after one attempt and no delay
C3_SettledFastPath ==
  (firstRead.ok /\ Accepts(opts, firstRead.val)) =>
    \/ pc = "inflight" /\ log = <<>>
    \/ pc = "returned" /\ result = Ok(firstRead.val) /\ log = <<"attempt">>

C3_Witness ==
  /\ pc = "returned" /\ log = <<"attempt">>
  /\ firstRead.ok /\ Accepts(opts, firstRead.val) /\ result.val = Bool(FALSE)

C5_SettlingBeforeTimeoutReturns ==
  pc = "failed" => ~(settledAt # -1 /\ settledAt - startTime < opts.timeout)

\* C5 amended: a target that comes to satisfy the condition more than one
\* round trip before timeout has elapsed, and keeps satisfying it, never ends
\* in Timeout; and whatever is returned satisfies the condition
C5_SettlingARoundTripBeforeTimeoutReturns ==
  /\ pc = "failed" =>
       ~(settledAt # -1 /\ settledAt - startTime + MaxLatency < opts.timeout)
  /\ pc = "returned" => (result.ok /\ Accepts(opts, result.val))

C5_Witness ==
  /\ pc = "returned" /\ Len(log) > 1
  /\ settledAt # -1 /\ settledAt - startTime + MaxLatency < opts.timeout
  /\ ~(firstRead.ok /\ Accepts(opts, firstRead.val))

\* C6: the Timeout message embeds the timeout, the caller's label and the
\* message of the latest failed attempt
C6_TimeoutMessage ==
  pc = "failed" =>
    /\ ~result.ok
    /\ Contains(result.msg, ToString(opts.timeout))
    /\ IsInfix(ErrorLabel(opts), result.msg)
    /\ lastAttempt.msg # <<>>
    /\ IsSuffix(lastAttempt.msg, result.msg)

C6_Witness == pc = "failed" /\ errsDiffer /\ Len(log) > 1

\* C7: with a predicate the failure says "to satisfy predicate" and not "to be
\* defined", without one the other way round, in both forms
C7_PredicateDistinction ==
  pc = "failed" =>
    /\ opts.hasPredicate =>
         (Contains(result.msg, ToSatisfy) /\ ~Contains(result.msg, ToBeDefined))
    /\ ~opts.hasPredicate =>
         (Contains(result.msg, ToBeDefined) /\ ~Contains(result.msg, ToSatisfy))

C7_Witness ==
  pc = "failed" /\ opts.hasPredicate /\ opts.form = "locator" /\ ~everAccepted

\* C8: the Timeout message reports the last observed value as
\* "Current value: <value>", with and without a predicate
C8_CurrentValueReported ==
  (pc = "failed" /\ lastAttempt.read.ok) =>
    IsInfix(<<CurrentValue, JsonStringify(lastAttempt.read.val)>>, result.msg)

\* C9: without a predicate undefined is never returned, and an attempt that
\* reads anything else returns it
C9_DefaultAcceptance ==
  ~opts.hasPredicate =>
    /\ pc = "returned" => result.val # Undefined
    /\ (lastAttempt.read.ok /\ lastAttempt.read.val # Undefined) =>
         (pc = "returned" /\ result = Ok(lastAttempt.read.val))

C9_Witness ==
  /\ pc = "returned" /\ ~opts.hasPredicate /\ Len(log) > 1
  /\ lastAttempt.read.ok /\ result.val \in {Null, Bool(FALSE), Num(0), Str(0)}

EventId(sel, event) == sel \o <<":", event>>

Put(map, key, value) ==
  [k \in DOMAIN map \cup {key} |-> IF k = key THEN value ELSE map[k]]

\* variant: the container is created anew at every use
EnsureHelpersAnew(h) == [NoHelpers EXCEPT !.exists = TRUE]
\* if (!window.__componentHelpers) window.__componentHelpers = {}
EnsureHelpers(h) == IF h.exists THEN h ELSE [NoHelpers EXCEPT !.exists = TRUE]

\* variant: the events sub-map is created anew at every activation
EnsureEventsAnew(h) == [h EXCEPT !.hasEvents = TRUE, !.events = EmptyMap]
\* if (!window.__componentHelpers.events) window.__componentHelpers.events = {}
EnsureEvents(h) ==
  IF h.hasEvents THEN h ELSE [h EXCEPT !.hasEvents = TRUE, !.events = EmptyMap]

\* variant: the list is created at the first activation only
ActivateSpyKeepsList(h, eventId) ==
  LET ready == EnsureEvents(EnsureHelpers(h)) IN
    IF eventId \in DOMAIN ready.events THEN ready
    ELSE [ready EXCEPT !.events = Put(ready.events, eventId, <<>>)]

\* the registry after spyOn's remote function: events[eventId] = []
ActivateSpy(h, eventId) ==
  LET ready == EnsureEvents(EnsureHelpers(h)) IN
    [ready EXCEPT !.events = Put(ready.events, eventId, <<>>)]

\* the record the listener builds from the event
TrackedEvent(e) ==
  [type |-> e.type, detail |-> e.detail, timestamp |-> now,
   bubbles |-> e.bubbles, cancelable |-> e.cancelable, composed |-> e.composed]

\* variant: the listener keeps only the latest record
SpyListenerKeepsLatest(h, eventId, e) ==
  IF h.exists /\ h.hasEvents /\ eventId \in DOMAIN h.events
  THEN [h EXCEPT !.events[eventId] = <<TrackedEvent(e)>>]
  ELSE h

\* the listener spyOn adds: push when the key's list exists
SpyListener(h, eventId, e) ==
  IF h.exists /\ h.hasEvents /\ eventId \in DOMAIN h.events
  THEN [h EXCEPT !.events[eventId] = Append(@, TrackedEvent(e))]
  ELSE h

\* dispatchEvent: the element's listeners for the event's type, in the order
\* they were added
RECURSIVE RunListeners(_, _, _)
RunListeners(ls, h, e) ==
  IF ls = <<>> THEN h
  ELSE RunListeners(Tail(ls),
                    IF Head(ls).event = e.type THEN SpyListener(h, Head(ls).eventId, e) ELSE h,
                    e)

\* the accessor: window.__componentHelpers?.events?.[eventId] ?? []
GetEvents(eventId) ==
  IF helpers.exists /\ helpers.hasEvents /\ eventId \in DOMAIN helpers.events
  THEN helpers.events[eventId]
  ELSE <<>>

\* `locator-${Math.random().toString(36).substring(2, 11)}`: the k-th draw
LocatorId(k) == "locator-" \o ToString(k)

\* spyOn's remote function on selector sel; the host keeps the accessor
SpyRemote(attrs, sel, event) ==
  LET element == QuerySelectorIn(attrs, sel) IN
    IF element = NoNode
    THEN /\ bridgeError' = ElementNotFound(sel)
         /\ UNCHANGED <<helpers, listeners, spies>>
    ELSE /\ bridgeError' = <<>>
         /\ helpers' = ActivateSpy(helpers, EventId(sel, event))
         /\ listeners' = [listeners EXCEPT ![element] =
                            Append(@, [event |-> event, eventId |-> EventId(sel, event)])]
         /\ spies' = Append(spies, [key |-> EventId(sel, event), node |-> element,
                                    event |-> event, seen |-> <<>>])

\* spyOn(page, selector, eventName)
SpyOnSelector(sel, event) ==
  /\ Len(spies) < MaxSpies
  /\ UNCHANGED <<spyAttr, nextSpyId>>
  /\ SpyRemote(spyAttr, sel, event)
  /\ UNCHANGED <<now, order, props, callVars, lastRead, dispatched, trackVars, extVars>>

\* spyOn(locator, eventName): the locator has resolved to element n, which is
\* stamped with a fresh data-spy-id and then found again by that attribute
SpyOnLocator(n, event) ==
  /\ Len(spies) < MaxSpies
  /\ \E i \in 1..Len(order) : order[i] = n
  /\ nextSpyId' = nextSpyId + 1
  /\ LET locatorId == LocatorId(nextSpyId + 1)
         stamped == [spyAttr EXCEPT ![n] = locatorId] IN
       /\ spyAttr' = stamped
       /\ SpyRemote(stamped, SpySelector(locatorId), event)
  /\ UNCHANGED <<now, order, props, callVars, lastRead, dispatched, trackVars, extVars>>

\* -------------------------------------------- waitForEvent's callbacks
\* variant: cleanup leaves the timer pending
CleanupKeepsTimer(w) == [w EXCEPT !.listening = FALSE]
\* cleanup: clearTimeout(timeoutId); element.removeEventListener(event, handler)
Cleanup(w) == [w EXCEPT !.timer = -1, !.listening = FALSE]

\* resolve(record): settles the promise if it is still pending
Resolve(w, rec) ==
  IF w.pc = "waiting" THEN [w EXCEPT !.pc = "resolved", !.record = rec, !.calls = @ + 1]
  ELSE [w EXCEPT !.calls = @ + 1]

\* reject(error)
Reject(w, message) ==
  IF w.pc = "waiting" THEN [w EXCEPT !.pc = "rejected", !.msg = message, !.calls = @ + 1]
  ELSE [w EXCEPT !.calls = @ + 1]

\* observation: an occurrence of the awaited event while the promise is pending
Observe(w, n, e) ==
  IF w.pc = "waiting" /\ w.node = n /\ w.event = e.type
  THEN [w EXCEPT !.early = @ + 1, !.first = IF w.early = 0 THEN e.detail ELSE @]
  ELSE w

\* the handler, registered with { once: true }: cleanup, then resolve
Handler(w, n, e) ==
  IF w.listening /\ w.node = n /\ w.event = e.type
  THEN Resolve(Cleanup([w EXCEPT !.listening = FALSE]), TrackedEvent(e))
  ELSE w

\* element.dispatchEvent(e): the spies' listeners and the waiting handler run
DispatchEvent(n, e) ==
  /\ dispatched' = dispatched + 1
  /\ helpers' = RunListeners(listeners[n], helpers, e)
  /\ waiter' = Handler(Observe(waiter, n, e), n, e)
  /\ spies' = [i \in 1..Len(spies) |->
                 IF spies[i].node = n /\ spies[i].event = e.type
                 THEN [spies[i] EXCEPT !.seen = Append(@, e.detail)]
                 ELSE spies[i]]

\* the component dispatches new CustomEvent(type, { detail }) on element n;
\* the k-th event of the scenario carries detail k
Dispatch(n, type) ==
  /\ dispatched < MaxEvents
  /\ dispatched' = dispatched + 1
  /\ helpers' = RunListeners(listeners[n], helpers, NewEvent(type, Num(dispatched')))
  /\ waiter' = Handler(Observe(waiter, n, NewEvent(type, Num(dispatched'))), n,
                       NewEvent(type, Num(dispatched')))
  /\ spies' = [i \in 1..Len(spies) |->
                 IF spies[i].node = n /\ spies[i].event = type
                 THEN [spies[i] EXCEPT !.seen = Append(@, Num(dispatched'))]
                 ELSE spies[i]]
  /\ UNCHANGED <<now, order, props, listeners, spyAttr, callVars>>
  /\ UNCHANGED <<nextSpyId, lastRead, bridgeError, trackVars>>
  /\ UNCHANGED <<text, callReturn, ran, lastOp, lastEmit, reads, laterVars>>

\* list holds one record per occurrence in seen, in the same order
RecordsMatch(list, seen, type) ==
  /\ Len(list) = Len(seen)
  /\ \A j \in 1..Len(list) : list[j].detail = seen[j] /\ list[j].type = type

\* the host calls accessor i; observed: how many records came back, and
\* whether they are the occurrences since the activation, in order
ReadSpy(i) ==
  /\ i \in 1..Len(spies)
  /\ LET list == GetEvents(spies[i].key) IN
       lastRead' = [spy |-> i, count |-> Len(list),
                    complete |-> RecordsMatch(list, spies[i].seen, spies[i].event)]
  /\ UNCHANGED <<now, docVars, callVars, nextSpyId, spies, dispatched, bridgeError, trackVars, extVars>>

InitSpy ==
  /\ InitDocument
  /\ order = <<1, 2>>
  /\ InitCall
  /\ InitBridges

NextSpy ==
  \/ \E sel \in Selectors, event \in EventNames : SpyOnSelector(sel, event)
  \/ \E n \in Nodes, event \in EventNames : SpyOnLocator(n, event)
  \/ \E n \in Nodes, type \in EventNames : Dispatch(n, type)
  \/ \E i \in 1..MaxSpies : ReadSpy(i)

SpecSpy == InitSpy /\ [][NextSpy]_vars

\* no other activation shares spy i's key
SoleActivation(i) == \A j \in 1..Len(spies) : j # i => spies[j].key # spies[i].key

\* C1: after k occurrences of the event on the spied element since spyOn, the
\* accessor returns exactly k records, in order of occurrence
C1_SpyAccumulates ==
  /\ \A i \in 1..Len(spies) :
       SoleActivation(i) => RecordsMatch(GetEvents(spies[i].key), spies[i].seen, spies[i].event)
  /\ (lastRead.spy # 0 /\ SoleActivation(lastRead.spy)) => lastRead.complete

C1_Witness ==
  /\ lastRead.spy # 0 /\ SoleActivation(lastRead.spy)
  /\ lastRead.complete /\ lastRead.count = MaxEvents

\* ==================================================== function properties
\* detectPropertyType(value).type, on the values of the model
DetectPropertyType(value) == value.t

\* variant: the key is the selector alone
CallIdBySelector(sel, prop) == sel
\* `${sel}:${prop}`
CallId(sel, prop) == sel \o <<":", prop>>

\* if (!window.__componentHelpers.functionCalls) ... = {}
EnsureCalls(h) ==
  IF h.hasCalls THEN h ELSE [h EXCEPT !.hasCalls = TRUE, !.calls = EmptyMap]

\* the registry after setProperty's remote function: functionCalls[callId] = []
StartTracking(h, callId) ==
  LET ready == EnsureCalls(EnsureHelpers(h)) IN
    [ready EXCEPT !.calls = Put(ready.calls, callId, <<>>)]

\* variant: the wrapper records the call in front of the earlier ones
StandInPrepends(h, callId, args) ==
  IF h.exists /\ h.hasCalls /\ callId \in DOMAIN h.calls
  THEN [h EXCEPT !.calls[callId] = <<[timestamp |-> now, args |-> args]>> \o @]
  ELSE h

\* the wrapper setProperty installs: push { timestamp, args }
StandIn(h, callId, args) ==
  IF h.exists /\ h.hasCalls /\ callId \in DOMAIN h.calls
  THEN [h EXCEPT !.calls[callId] = Append(@, [timestamp |-> now, args |-> args])]
  ELSE h

\* window.__componentHelpers?.functionCalls?.[callId] ?? []
FunctionCalls(callId) ==
  IF helpers.exists /\ helpers.hasCalls /\ callId \in DOMAIN helpers.calls
  THEN helpers.calls[callId]
  ELSE <<>>

\* variant: the caller's function itself is put on the element
WrapperIsGiven(value, callId) == value
\* element[prop] = (...args) => { ... }: the wrapper closes over callId only;
\* the caller's function is not among the arguments of the remote function
Wrapper(value, callId) == Fn(callId)

\* variant: setting a plain value drops the key's call history
SetDirectlyForgets(h, callId) ==
  IF h.exists /\ h.hasCalls /\ callId \in DOMAIN h.calls
  THEN [h EXCEPT !.calls[callId] = <<>>]
  ELSE h

\* the registry after the remote function for a value that is not a
\* function: element[prop] = val touches no registry entry
SetDirectly(h, callId) == h

\* setProperty(page, selector, propertyName, value)
SetProperty(sel, name, value) ==
  LET element == QuerySelector(sel) IN
    /\ IF element = NoNode
       THEN /\ bridgeError' = ElementNotFound(sel)
            /\ UNCHANGED <<props, helpers, invoked>>
       ELSE /\ bridgeError' = <<>>
            /\ IF DetectPropertyType(value) = "function"
               THEN /\ helpers' = StartTracking(helpers, CallId(sel, name))
                    /\ props' = [props EXCEPT ![element][name] = Wrapper(value, CallId(sel, name))]
                    /\ invoked' = Put(invoked, CallId(sel, name), <<>>)
               ELSE /\ props' = [props EXCEPT ![element][name] = value]
                    /\ helpers' = SetDirectly(helpers, CallId(sel, name))
                    /\ UNCHANGED invoked
    /\ lastOp' = [kind |-> "setProperty", sel |-> sel, submissions |-> 1]
    /\ UNCHANGED <<now, order, listeners, spyAttr, callVars, spyVars, lastCalls, invocations>>
    /\ UNCHANGED <<text, callReturn, ran, lastEmit, waiter, reads, laterVars>>

\* the component calls this[name](...args) on element n
Invoke(n, name, args) ==
  /\ props[n][name].t = "function"
  /\ invocations < MaxEvents
  /\ invocations' = invocations + 1
  /\ helpers' = StandIn(helpers, props[n][name].id, args)
  /\ invoked' = [invoked EXCEPT ![props[n][name].id] = Append(@, args)]
  /\ UNCHANGED <<now, order, props, listeners, spyAttr, callVars, spyVars>>
  /\ UNCHANGED <<bridgeError, lastCalls, extVars>>

\* list holds one record per invocation in calls, in the same order, and
\* its timestamps never decrease
CallsMatch(list, calls) ==
  /\ Len(list) = Len(calls)
  /\ \A j \in 1..Len(list) : list[j].args = calls[j]
  /\ \A j \in 1..(Len(list) - 1) : list[j].timestamp <= list[j + 1].timestamp

\* getFunctionCalls(page, selector, propertyName), for a property that was
\* set to a function; observed: how many records came back, whether they
\* are the invocations since then, and what the property held at that moment
GetFunctionCalls(sel, name) ==
  /\ CallId(sel, name) \in DOMAIN invoked
  /\ LET list == FunctionCalls(CallId(sel, name)) IN
       lastCalls' = [key |-> CallId(sel, name), count |-> Len(list),
                     complete |-> CallsMatch(list, invoked[CallId(sel, name)]),
                     held |-> IF QuerySelector(sel) = NoNode THEN ""
                              ELSE props[QuerySelector(sel)][name].t]
  /\ UNCHANGED <<now, docVars, callVars, spyVars, bridgeError, invoked, invocations, extVars>>

\* time passes
Tick ==
  /\ now < MaxClock
  /\ now' = now + 1
  /\ UNCHANGED <<docVars, callVars, bridgeVars>>

\* the values test code sets, () => {} among them
SetValues == {Fn(<<>>), Num(1)}
\* the argument list of the k-th invocation of the scenario
ArgList(k) == IF k % 2 = 1 THEN <<Str(1), Num(k)>> ELSE <<Num(k)>>

InitTrack ==
  /\ InitDocument
  /\ order = <<1>>
  /\ InitCall
  /\ InitBridges

NextTrack ==
  \/ \E sel \in Selectors, name \in PropNames, value \in SetValues : SetProperty(sel, name, value)
  \/ \E n \in Nodes, name \in PropNames : Invoke(n, name, ArgList(invocations + 1))
  \/ \E sel \in Selectors, name \in PropNames : GetFunctionCalls(sel, name)
  \/ Tick

SpecTrack == InitTrack /\ [][NextTrack]_vars

\* C2: after setProperty with a function, N invocations of the property give
\* N records from getFunctionCalls, in invocation order, with each
\* invocation's arguments and timestamps that never decrease
C2_FunctionTracking ==
  /\ \A key \in DOMAIN invoked : CallsMatch(FunctionCalls(key), invoked[key])
  /\ lastCalls.complete

C2_Witness ==
  /\ lastCalls.complete /\ lastCalls.count = MaxEvents
  /\ LET list == FunctionCalls(lastCalls.key) IN
       /\ Len(list) = MaxEvents
       /\ list[1].args # list[2].args
       /\ list[1].timestamp < list[MaxEvents].timestamp

\* ======================================================= call, callMethod
MaxCalls == 3        \* call, callMethod and emit operations in one scenario

\* the methods of the component's class, and the member names tried
ClassMethods == {"add", "multiply"}
Members == ClassMethods \cup PropNames \cup {"missing"}
Method(m) == [t |-> "function", v |-> 1, id |-> <<m>>]
\* argument lists of two numbers
CallArgs == {<<Num(1), Num(2)>>, <<Num(2), Num(2)>>}

\* element[method]: an own property, else the class's method, else undefined
Member(n, m) ==
  IF m \in PropNames /\ props[n][m].t # "undefined" THEN props[n][m]
  ELSE IF m \in ClassMethods THEN Method(m)
  ELSE Undefined

\* `Method ${method} not found on element`
MethodNotFound(m) == <<"Method ", m, " not found on element">>
\* calling what is not a function
NotAFunction == <<"element[method] is not a function">>
\* a class method reads `this`, which is undefined
ThisUndefined == <<"Cannot read properties of undefined (reading 'querySelector')">>

\* an array of values, as it reaches the host
Arr(args) ==
  [t |-> "array", v |-> Len(args), id |-> [i \in 1..Len(args) |-> JsonStringify(args[i])]]

\* variant: everything counts as callable
TypeofAlwaysFunction(value) == "function"
\* typeof value
Typeof(value) == IF value.t \in {"null", "array"} THEN "object" ELSE value.t

\* variant: the arguments arrive in reverse order
SpreadReversed(args) == [i \in 1..Len(args) |-> args[Len(args) + 1 - i]]
\* ...methodArgs
Spread(args) == args

\* the state the remote function works on, and what it has done to it
Remote(out, t, h, r) == [out |-> out, text |-> t, helpers |-> h, ran |-> r]

\* fn.call(receiver, ...args) with receiver NoNode for an unbound call
RunMember(fn, receiver, m, args) ==
  LET run == [count |-> ran.count + 1, receiver |-> receiver, member |-> m, args |-> args] IN
    IF fn.t # "function" THEN Remote(Throw(NotAFunction), text, helpers, ran)
    ELSE IF fn.v = 0
      THEN \* the stand-in, an arrow function: ignores its receiver
           Remote(Ok(Arr(args)), text, StandIn(helpers, fn.id, args), run)
    ELSE IF m = "multiply"
      THEN Remote(Ok(Num(args[1].v * args[2].v)), text, helpers, run)
    ELSE \* add: writes the sum into the element's #result, returns it
      IF receiver = NoNode
      THEN Remote(Throw(ThisUndefined), text, helpers, run)
      ELSE Remote(Ok(Num(args[1].v + args[2].v)),
                  [text EXCEPT ![receiver] = args[1].v + args[2].v], helpers, run)

\* the remote function of call(page, selector, methodName, ...args)
CallRemote(sel, m, args) ==
  LET element == QuerySelector(sel) IN
    IF element = NoNode THEN Remote(Throw(ElementNotFound(sel)), text, helpers, ran)
    ELSE IF Typeof(Member(element, m)) # "function"
      THEN Remote(Throw(MethodNotFound(m)), text, helpers, ran)
    ELSE RunMember(Member(element, m), element, m, Spread(args))

\* the remote function of callOnLocator(locator, methodName, ...args):
\* const fn = el[method]; fn(...methodArgs)
CallOnLocatorRemote(element, m, args) ==
  IF Typeof(Member(element, m)) # "function"
  THEN Remote(Throw(MethodNotFound(m)), text, helpers, ran)
  ELSE RunMember(Member(element, m), NoNode, m, Spread(args))

\* the host side of one call: the outcome comes back marshalled
Returned(seq, form, sel, m, args, remote, same) ==
  /\ callReturn' = [seq |-> seq, form |-> form, node |-> QuerySelector(sel), member |-> m,
                    args |-> args,
                    out |-> [remote.out EXCEPT !.val = Marshal(@)], same |-> same]
  /\ text' = remote.text
  /\ helpers' = remote.helpers
  /\ ran' = remote.ran
  /\ bridgeError' = remote.out.msg
  /\ lastOp' = [kind |-> form, sel |-> sel, submissions |-> 1]

\* call(page, selector, methodName, ...args)
Call(sel, m, args) ==
  /\ callReturn.seq + lastEmit.seq < MaxCalls
  /\ Returned(callReturn.seq + 1, "call", sel, m, args,
              CallRemote(sel, m, args), TRUE)
  /\ UNCHANGED <<now, order, props, listeners, spyAttr, callVars, spyVars, trackVars>>
  /\ UNCHANGED <<lastEmit, waiter, reads, laterVars>>

\* locator.callMethod(methodName, ...args), the locator resolving to the
\* first element that matches sel; observed: whether call(page, sel, ...)
\* would have ended the same way
CallMethod(sel, m, args) ==
  /\ callReturn.seq + lastEmit.seq < MaxCalls
  /\ QuerySelector(sel) # NoNode
  /\ LET remote == CallOnLocatorRemote(QuerySelector(sel), m, args)
         other == CallRemote(sel, m, args) IN
       Returned(callReturn.seq + 1, "callMethod", sel, m, args, remote,
                /\ remote.out = other.out
                /\ remote.text = other.text
                /\ remote.helpers = other.helpers)
  /\ UNCHANGED <<now, order, props, listeners, spyAttr, callVars, spyVars, trackVars>>
  /\ UNCHANGED <<lastEmit, waiter, reads, laterVars>>

\* ==================================================================== emit
\* the emits of the scenarios: event name, detail (Undefined: none), options
EmitInputs ==
  { <<"change", Undefined, NoOptions>>,
    <<"change", Num(7), [bubbles |-> "false", cancelable |-> "omitted", composed |-> "omitted"]>>,
    <<"input", Num(7), [bubbles |-> "true", cancelable |-> "false", composed |-> "false"]>> }

\* variant: an omitted flag counts as false, as in the CustomEvent constructor
EmitFlagAsConstructed(option) == option = "true"
\* eventOptions?.flag ?? true
EmitFlag(option) == IF option = "omitted" THEN TRUE ELSE option = "true"

\* new CustomEvent(event, { detail, bubbles, cancelable, composed }): a
\* detail of undefined is a missing member, so the event's detail is null
CustomEvent(type, detail, options) ==
  [type |-> type, detail |-> IF detail.t = "undefined" THEN Null ELSE detail,
   bubbles |-> EmitFlag(options.bubbles), cancelable |-> EmitFlag(options.cancelable),
   composed |-> EmitFlag(options.composed)]

\* emit(page, selector, eventName, detail, options)
Emit(sel, type, detail, options) ==
  LET element == QuerySelector(sel)
      e == CustomEvent(type, Marshal(detail), options) IN
    /\ callReturn.seq + lastEmit.seq < MaxCalls
    /\ dispatched < MaxEvents
    /\ lastOp' = [kind |-> "emit", sel |-> sel, submissions |-> 1]
    /\ IF element = NoNode
       THEN /\ bridgeError' = ElementNotFound(sel)
            /\ lastEmit' = [NoEmit EXCEPT !.seq = lastEmit.seq + 1]
            /\ UNCHANGED <<dispatched, helpers, waiter, spies>>
       ELSE /\ bridgeError' = <<>>
            /\ lastEmit' = [seq |-> lastEmit.seq + 1, node |-> element, type |-> type,
                            detail |-> detail, options |-> options, event |-> e]
            /\ DispatchEvent(element, e)
    /\ UNCHANGED <<now, order, props, listeners, spyAttr, callVars>>
    /\ UNCHANGED <<nextSpyId, lastRead, trackVars, text, callReturn, ran, reads, laterVars>>

\* ------------------------------------------- the one-shot bridges together
\* the properties the scenario sets: a callback and a plain value
PropertySets == {<<"onClick", Fn(<<>>)>>, <<"value", Num(1)>>}

InitMethods ==
  /\ InitDocument
  /\ order = <<1, 2>>
  /\ InitCall
  /\ InitBridges

NextMethods ==
  \/ \E sel \in Selectors, set \in PropertySets : SetProperty(sel, set[1], set[2])
  \/ \E sel \in Selectors, m \in Members, args \in CallArgs : Call(sel, m, args)
  \/ \E sel \in Selectors, m \in Members, args \in CallArgs : CallMethod(sel, m, args)
  \/ \E sel \in Selectors : Emit(sel, "change", Undefined, NoOptions)

SpecMethods == InitMethods /\ [][NextMethods]_vars

\* a bridge call has been made in this step
BridgeStep ==
  lastOp' # lastOp \/ callReturn'.seq # callReturn.seq \/ lastEmit'.seq # lastEmit.seq

\* nothing was invoked or dispatched, element and registry are as before
NoRemoteEffect ==
  /\ UNCHANGED <<order, props, listeners, spyAttr, helpers, text>>
  /\ UNCHANGED <<ran, dispatched, spies, waiter>>

\* member m of element n is missing or holds something that is not a function
NotCallable(n, m) ==
  /\ m \notin ClassMethods \/ (m \in PropNames /\ props[n][m].t \notin {"undefined", "function"})
  /\ m \in PropNames => props[n][m].t # "function"

Sum(args) == args[1].v + args[2].v
Product(args) == args[1].v * args[2].v

\* C13: call on a callable member invokes it once on the element with the
\* arguments in the given order, returns its return value, and applies its
\* effect on the element once
C13_CallInvokesOnce ==
  [][( /\ callReturn'.seq # callReturn.seq
       /\ lastOp'.kind = "call"
       /\ QuerySelector(lastOp'.sel) # NoNode
       /\ ~NotCallable(QuerySelector(lastOp'.sel), callReturn'.member) )
     => LET n == QuerySelector(lastOp'.sel)
            m == callReturn'.member
            args == callReturn'.args IN
          /\ ran' = [count |-> ran.count + 1, receiver |-> n, member |-> m, args |-> args]
          /\ bridgeError' = <<>>
          /\ UNCHANGED <<order, props, listeners, spyAttr, dispatched>>
          /\ IF m \in PropNames
             THEN /\ callReturn'.out.ok /\ callReturn'.out.val.v = Len(args)
                  /\ UNCHANGED text
                  /\ helpers' = [helpers EXCEPT !.calls[props[n][m].id] =
                                    Append(@, [timestamp |-> now, args |-> args])]
             ELSE /\ UNCHANGED helpers
                  /\ IF m = "add"
                     THEN /\ callReturn'.out = Ok(Num(Sum(args)))
                          /\ text' = [text EXCEPT ![n] = Sum(args)]
                     ELSE /\ callReturn'.out = Ok(Num(Product(args)))
                          /\ UNCHANGED text
    ]_vars

\* add(1, 2) has been called after another run: 3 is returned and shown
C13_Witness ==
  /\ callReturn.form = "call" /\ callReturn.member = "add"
  /\ callReturn.args = <<Num(1), Num(2)>>
  /\ callReturn.out = Ok(Num(3)) /\ text[1] = 3
  /\ ran.count = 2

\* C14: callMethod(methodName, ...args) on a handle returns what
\* call(page, selector, methodName, ...args) returns on the same element and
\* leaves the element in the same state
C14_CallMethodEqualsCall == callReturn.form = "callMethod" => callReturn.same

\* ================================================ getProperty, no element
\* the first attempt of a selector-form call found no element
NoElementAtFirst ==
  /\ pc # "idle" /\ opts.form = "selector"
  /\ firstRead = Throw(ElementNotFound(opts.sel))

\* the call has not ended in ElementNotFound, nor before timeout has elapsed
FailsOnlyByTimeout ==
  pc = "failed" =>
    /\ Elapsed >= opts.timeout
    /\ result.msg # ElementNotFound(opts.sel)
    /\ Head(result.msg) = "Timeout " /\ Contains(result.msg, Exceeded)

\* C12 as stated: when the selector matches no element the attempt is a
\* retryable failure; an element with an acceptable property that appears
\* before the deadline is returned, otherwise the call fails with Timeout
\* once timeout has elapsed
C12_AppearingBeforeDeadlineReturns ==
  NoElementAtFirst =>
    /\ FailsOnlyByTimeout
    /\ pc = "failed" => ~(settledAt # -1 /\ settledAt - startTime < opts.timeout)
    /\ pc = "returned" => (result.ok /\ Accepts(opts, result.val))

\* C12 amended: the element has to appear more than one round trip before
\* the deadline, and stay, for the call to be sure to return its value
C12_AppearingARoundTripBeforeDeadlineReturns ==
  NoElementAtFirst =>
    /\ FailsOnlyByTimeout
    /\ pc = "failed" =>
         ~(settledAt # -1 /\ settledAt - startTime + MaxLatency < opts.timeout)
    /\ pc = "returned" => (result.ok /\ Accepts(opts, result.val))
    /\ pc \in {"wait", "attempt"} => lastError # <<>>

\* the element appeared after an attempt had found none, and was returned
C12_Witness ==
  /\ NoElementAtFirst /\ pc = "returned"
  /\ log = <<"attempt", "delay", "attempt">>
  /\ settledAt # -1 /\ settledAt - startTime + MaxLatency < opts.timeout

\* ================================================== setProperty on a handle
\* `locator:${prop}:${Date.now()}`
LocatorCallId(prop) == <<"locator:", prop, ":", ToString(now)>>

\* locator.setProperty(propertyName, value), the locator resolving to the
\* first element that matches sel
SetPropertyOnLocator(sel, name, value) ==
  LET element == QuerySelector(sel) IN
    /\ element # NoNode
    /\ bridgeError' = <<>>
    /\ lastOp' = [kind |-> "setPropertyOnLocator", sel |-> sel, submissions |-> 1]
    /\ IF DetectPropertyType(value) = "function"
       THEN /\ helpers' = StartTracking(helpers, LocatorCallId(name))
            /\ props' = [props EXCEPT ![element][name] = Fn(LocatorCallId(name))]
            /\ invoked' = Put(invoked, LocatorCallId(name), <<>>)
       ELSE /\ props' = [props EXCEPT ![element][name] = value]
            /\ UNCHANGED <<helpers, invoked>>
    /\ UNCHANGED <<now, order, listeners, spyAttr, callVars, spyVars, lastCalls, invocations>>
    /\ UNCHANGED <<text, callReturn, ran, lastEmit, waiter, reads, laterVars>>

\* getFunctionCalls(page, selector, propertyName) for an element whose
\* property holds a stand-in; observed: how many records came back, and
\* whether they are the invocations of that stand-in
GetFunctionCallsOfElement(sel, name) ==
  LET element == QuerySelector(sel) IN
    /\ element # NoNode
    /\ props[element][name].t = "function"
    /\ LET list == FunctionCalls(CallId(sel, name)) IN
         lastCalls' = [key |-> CallId(sel, name), count |-> Len(list),
                       complete |-> CallsMatch(list, invoked[props[element][name].id]),
                       held |-> props[element][name].t]
    /\ UNCHANGED <<now, docVars, callVars, spyVars, bridgeError, invoked, invocations, extVars>>

InitHandle ==
  /\ InitDocument
  /\ order = <<1, 2>>
  /\ InitCall
  /\ InitBridges

NextHandle ==
  \/ \E sel \in Selectors, value \in SetValues : SetPropertyOnLocator(sel, "onClick", value)
  \/ \E n \in Nodes : Invoke(n, "onClick", ArgList(invocations + 1))
  \/ \E sel \in Selectors : GetFunctionCallsOfElement(sel, "onClick")
  \/ Tick

SpecHandle == InitHandle /\ [][NextHandle]_vars

\* C15: after the handle-bound setProperty(name, fn) and N invocations of the
\* property, getFunctionCalls for the element and name returns N records
C15_HandleTrackingReadable ==
  /\ \A sel \in Selectors, name \in PropNames :
       (QuerySelector(sel) # NoNode /\ props[QuerySelector(sel)][name].t = "function") =>
         Len(FunctionCalls(CallId(sel, name))) =
           Len(invoked[props[QuerySelector(sel)][name].id])
  /\ lastCalls.complete

\* ===================================================== spy re-activation
\* the latest activation of spy i's key
LatestActivation(i) == \A j \in 1..Len(spies) : spies[j].key = spies[i].key => j <= i

\* every record of the key's list is an occurrence since the latest
\* activation, and there is none before the first such occurrence
SinceLatestActivation ==
  \A i \in 1..Len(spies) :
    LatestActivation(i) =>
      /\ \A k \in 1..Len(GetEvents(spies[i].key)) :
           \E j \in 1..Len(spies[i].seen) : GetEvents(spies[i].key)[k].detail = spies[i].seen[j]
      /\ spies[i].seen = <<>> => GetEvents(spies[i].key) = <<>>

\* an activation leaves its key's list empty, whatever it held
ActivationEmptiesList ==
  Len(spies') > Len(spies) =>
    /\ spies'[Len(spies')].seen = <<>>
    /\ helpers'.exists /\ helpers'.hasEvents
    /\ spies'[Len(spies')].key \in DOMAIN helpers'.events
    /\ helpers'.events[spies'[Len(spies')].key] = <<>>

\* C16: a key's list is emptied at spy activation: occurrences before spyOn
\* are never in it, the accessor returns an empty list until the first
\* occurrence after activation, and a later activation for the same key
\* discards the records accumulated so far
C16_ListResetAtActivation == []SinceLatestActivation /\ [][ActivationEmptiesList]_vars

\* a key that had gathered two records has been activated again
C16_Witness ==
  /\ Len(spies) = 2 /\ spies[1].key = spies[2].key
  /\ Len(spies[1].seen) = 2 /\ spies[2].seen = <<>>
  /\ GetEvents(spies[2].key) = <<>>
  /\ lastRead.spy = 1 /\ lastRead.count = 2

\* ======================================================= repeated reads
MaxReads == 3        \* accessor calls in one scenario

\* the host calls accessor i; observed: the list that came back, how long
\* the list of the call before was, and how many events had been dispatched
\* and spies activated by then
ReadSpyList(i) ==
  /\ i \in 1..Len(spies)
  /\ reads.n < MaxReads
  /\ reads' = [n |-> reads.n + 1, spy |-> i, list |-> GetEvents(spies[i].key),
               before |-> Len(reads.list), at |-> dispatched, acts |-> Len(spies)]
  /\ UNCHANGED <<now, docVars, callVars, spyVars, bridgeError, trackVars>>
  /\ UNCHANGED <<text, callReturn, ran, lastOp, lastEmit, waiter, laterVars>>

NextReads ==
  \/ \E sel \in Selectors : SpyOnSelector(sel, "change")
  \/ \E n \in Nodes : SpyOnLocator(n, "change")
  \/ \E n \in Nodes : Dispatch(n, "change")
  \/ \E i \in 1..MaxSpies : ReadSpyList(i)

SpecReads == InitSpy /\ [][NextReads]_vars

IsPrefix(part, list) ==
  /\ Len(part) <= Len(list)
  /\ \A j \in 1..Len(part) : list[j] = part[j]

\* this step is an accessor call for the key of the call before it, and the
\* key has not been activated in between
SuccessiveReads ==
  /\ reads'.n # reads.n /\ reads.spy # 0
  /\ spies[reads'.spy].key = spies[reads.spy].key
  /\ \A j \in (reads.acts + 1)..Len(spies) : spies[j].key # spies[reads.spy].key

\* C17: reading through a spy accessor does not consume: two reads with no
\* occurrence between them return the same list, and of two successive reads
\* within one activation the earlier list is a prefix of the later
C17_ReadsAreNonDestructive ==
  [][SuccessiveReads =>
       /\ IsPrefix(reads.list, reads'.list)
       /\ reads'.at = reads.at => reads'.list = reads.list
       /\ helpers' = helpers
    ]_vars

\* a read of one record, an equal one, and a read of all records after them
C17_Witness ==
  /\ reads.n = MaxReads /\ spies[reads.spy].key = <<"x", ":", "change">>
  /\ Len(spies) = 1
  /\ reads.before = 1 /\ Len(reads.list) = MaxEvents

\* ------------------------------------------------------- emit and spies
NextEmit ==
  \/ \E sel \in Selectors : SpyOnSelector(sel, "change")
  \/ \E n \in Nodes : SpyOnLocator(n, "change")
  \/ \E sel \in Selectors, in \in EmitInputs : Emit(sel, in[1], in[2], in[3])
  \/ \E i \in 1..MaxSpies : ReadSpy(i)

SpecEmit == InitSpy /\ [][NextEmit]_vars

\* the flag of the emitted event for an option as given
FlagFor(option) == option # "false"

\* record rec describes event e
RecordOf(rec, e) ==
  /\ rec.type = e.type /\ rec.detail = e.detail
  /\ rec.bubbles = e.bubbles /\ rec.cancelable = e.cancelable /\ rec.composed = e.composed

\* C18: emit dispatches one event on the target, with the given detail and
\* with each flag as given, true when omitted; an active spy on the target
\* for the event's name gains one record with the event's type, detail and
\* flags
C18_EmitDispatchesOne ==
  [][(lastEmit'.seq # lastEmit.seq /\ lastEmit'.node # NoNode) =>
       /\ lastEmit'.node = QuerySelector(lastOp'.sel)
       /\ dispatched' = dispatched + 1
       /\ lastEmit'.event.type = lastEmit'.type
       /\ lastEmit'.detail # Undefined => lastEmit'.event.detail = lastEmit'.detail
       /\ lastEmit'.event.bubbles = FlagFor(lastEmit'.options.bubbles)
       /\ lastEmit'.event.cancelable = FlagFor(lastEmit'.options.cancelable)
       /\ lastEmit'.event.composed = FlagFor(lastEmit'.options.composed)
       /\ \A i \in 1..Len(spies) :
            SoleActivation(i) =>
              IF spies[i].node = lastEmit'.node /\ spies[i].event = lastEmit'.type
              THEN /\ Len(helpers'.events[spies[i].key]) = Len(helpers.events[spies[i].key]) + 1
                   /\ IsPrefix(helpers.events[spies[i].key], helpers'.events[spies[i].key])
                   /\ RecordOf(helpers'.events[spies[i].key][Len(helpers'.events[spies[i].key])],
                               lastEmit'.event)
              ELSE helpers'.events[spies[i].key] = helpers.events[spies[i].key]
    ]_vars

\* a spied element has been sent two events, the later with bubbles: false
C18_Witness ==
  /\ lastEmit.seq = 2 /\ lastEmit.node = 1 /\ lastEmit.options.bubbles = "false"
  /\ lastEmit.detail = Num(7)
  /\ Len(spies) = 1 /\ spies[1].node = 1 /\ spies[1].event = lastEmit.type
  /\ Len(GetEvents(spies[1].key)) = 2
  /\ GetEvents(spies[1].key)[2].bubbles = FALSE /\ GetEvents(spies[1].key)[2].cancelable = TRUE
  /\ lastRead.spy = 1 /\ lastRead.count = 2

\* ============================================================ waitForEvent
\* `Timeout waiting for event: ${event}`
TimeoutWaiting(event) == <<"Timeout waiting for event: ", event>>

\* waitForEvent(page, selector, eventName, timeout): the remote function
\* rejects when no element matches, else sets the timer and adds the handler
WaitForEvent(sel, event, timeout) ==
  LET element == QuerySelector(sel) IN
    /\ waiter.pc = "idle"
    /\ lastOp' = [kind |-> "waitForEvent", sel |-> sel, submissions |-> 1]
    /\ waiter' = IF element = NoNode
                 THEN Reject([NoWaiter EXCEPT !.pc = "waiting", !.event = event],
                             ElementNotFound(sel))
                 ELSE [NoWaiter EXCEPT !.pc = "waiting", !.node = element, !.event = event,
                                       !.timer = now + timeout, !.due = now + timeout,
                                       !.listening = TRUE]
    /\ UNCHANGED <<now, docVars, callVars, spyVars, bridgeError, trackVars>>
    /\ UNCHANGED <<text, callReturn, ran, lastEmit, reads, laterVars>>

\* the timer's callback runs, at or after the instant it was set for
TimerFires ==
  /\ waiter.timer # -1
  /\ now >= waiter.timer
  /\ waiter' = Reject(Cleanup(waiter), TimeoutWaiting(waiter.event))
  /\ UNCHANGED <<now, docVars, callVars, spyVars, bridgeError, trackVars>>
  /\ UNCHANGED <<text, callReturn, ran, lastOp, lastEmit, reads, laterVars>>

NextWait ==
  \/ \E sel \in Selectors, event \in EventNames, timeout \in 0..MaxTimeout :
       WaitForEvent(sel, event, timeout)
  \/ \E n \in Nodes, type \in EventNames : Dispatch(n, type)
  \/ TimerFires
  \/ Tick

SpecWait == InitSpy /\ [][NextWait]_vars

\* the promise has one outcome, and it is the right one
OneOutcome ==
  /\ waiter.calls <= 1
  /\ waiter.pc = "waiting" => (waiter.calls = 0 /\ waiter.early = 0)
  /\ waiter.pc = "resolved" =>
       /\ waiter.calls = 1 /\ waiter.early >= 1 /\ waiter.msg = <<>>
       /\ waiter.record.type = waiter.event
       /\ waiter.record.detail = waiter.first
  /\ (waiter.pc = "rejected" /\ waiter.node # NoNode) =>
       /\ waiter.calls = 1 /\ waiter.early = 0 /\ waiter.record = NoRecord
       /\ waiter.msg = TimeoutWaiting(waiter.event)
       /\ now >= waiter.due

\* a settled promise keeps its outcome
OutcomeIsFinal ==
  waiter.pc \in {"resolved", "rejected"} =>
    /\ waiter'.pc = waiter.pc
    /\ waiter'.record = waiter.record
    /\ waiter'.msg = waiter.msg

\* C19: waitForEvent has exactly one outcome under every interleaving of event
\* and timer: the record of the first occurrence after its listener was
\* registered if that precedes the timer, else a timeout error naming the
\* event; never both, and never a later occurrence
C19_OneOutcome == []OneOutcome /\ [][OutcomeIsFinal]_vars

\* resolved by the second event of the scenario although the timer was due,
\* and a third event has occurred since
C19_Witness ==
  /\ waiter.pc = "resolved" /\ waiter.first = Num(2) /\ waiter.record.detail = Num(2)
  /\ dispatched = 3 /\ waiter.early = 1
  /\ now >= waiter.due

\* ============================================== overwriting a stand-in
\* setProperty has replaced the stand-in of an element by a plain value, and
\* the registry is what it was
OverwriteKeepsHistory ==
  \A n \in Nodes, name \in PropNames :
    (props[n][name].t = "function" /\ props'[n][name].t # "function") =>
      /\ props'[n][name] \in SetValues
      /\ helpers' = helpers
      /\ invoked' = invoked

\* C20: setProperty with a value that is not a function on a property holding
\* a tracking stand-in replaces the stand-in and clears nothing: the recorded
\* call history stays in the registry and getFunctionCalls still returns it
C20_OverwriteKeepsHistory ==
  /\ [][OverwriteKeepsHistory]_vars
  /\ [](lastCalls.held \notin {"", "function"} => lastCalls.complete)

\* the history of two invocations has been read after the stand-in was
\* replaced by a number
C20_Witness ==
  /\ lastCalls.held = "number" /\ lastCalls.count = 2 /\ lastCalls.complete
  /\ props[1]["onClick"] = Num(1)
  /\ lastCalls.key = CallId(<<"x">>, "onClick")
  /\ Len(FunctionCalls(lastCalls.key)) = 2

\* ================================================ the stand-in, invoked
\* no element holds the function the caller passed to setProperty
NoCallerFunctionInstalled ==
  \A n \in Nodes, name \in PropNames : \A value \in SetValues :
    value.t = "function" => props[n][name] # value

\* the step is a call of a function-valued property: it appends one record
\* and returns the argument list, and does nothing else to the page
StandInOnlyRecords ==
  ( /\ callReturn'.seq # callReturn.seq
    /\ callReturn'.node # NoNode
    /\ callReturn'.member \in PropNames
    /\ props[callReturn'.node][callReturn'.member].t = "function" )
  => LET id == props[callReturn'.node][callReturn'.member].id
         args == callReturn'.args IN
       /\ helpers.exists /\ helpers.hasCalls /\ id \in DOMAIN helpers.calls
       /\ helpers' = [helpers EXCEPT !.calls[id] =
                        Append(@, [timestamp |-> now, args |-> args])]
       /\ callReturn'.out.ok
       /\ callReturn'.out.val.t = "array"
       /\ callReturn'.out.val.v = Len(args)
       /\ \A i \in 1..Len(args) : callReturn'.out.val.id[i] = JsonStringify(args[i])
       /\ UNCHANGED <<order, props, listeners, spyAttr, text, dispatched>>

\* C21: the function given to setProperty is never executed; an invocation
\* of the installed stand-in appends one call record and returns its own
\* argument list
C21_StandInOnlyRecords == []NoCallerFunctionInstalled /\ [][StandInOnlyRecords]_vars

\* the stand-in has been invoked twice through call and callMethod
C21_Witness ==
  /\ callReturn.member = "onClick" /\ callReturn.out.ok
  /\ callReturn.out.val.t = "array" /\ callReturn.form = "callMethod"
  /\ Len(FunctionCalls(CallId(<<"x">>, "onClick"))) = 2

\* ====================================================== clearFunctionCalls
\* window.__componentHelpers?.functionCalls?.[callId] ?? [], in registry h
CallsOf(h, callId) ==
  IF h.exists /\ h.hasCalls /\ callId \in DOMAIN h.calls THEN h.calls[callId] ELSE <<>>

\* variant: the clear deletes the key from the registry
ClearCallsDeletes(h, callId) ==
  IF h.exists /\ h.hasCalls /\ callId \in DOMAIN h.calls
  THEN [h EXCEPT !.calls = [k \in DOMAIN h.calls \ {callId} |-> h.calls[k]]]
  ELSE h

\* if (window.__componentHelpers?.functionCalls?.[callId]) { ...[callId] = [] }:
\* a list, empty or not, is truthy; a key that is not there is left alone
ClearCalls(h, callId) ==
  IF h.exists /\ h.hasCalls /\ callId \in DOMAIN h.calls
  THEN [h EXCEPT !.calls[callId] = <<>>]
  ELSE h

\* clearFunctionCalls(page, selector, propertyName); observed: the key, when
\* the clear emptied a list that held records
ClearFunctionCalls(sel, name) ==
  /\ helpers' = ClearCalls(helpers, CallId(sel, name))
  /\ invoked' = IF CallId(sel, name) \in DOMAIN invoked
                THEN [invoked EXCEPT ![CallId(sel, name)] = <<>>]
                ELSE invoked
  /\ marks' = [marks EXCEPT !.cleared = IF FunctionCalls(CallId(sel, name)) # <<>>
                                        THEN CallId(sel, name) ELSE <<>>]
  /\ lastOp' = [kind |-> "clearFunctionCalls", sel |-> sel, submissions |-> 1]
  /\ bridgeError' = <<>>
  /\ UNCHANGED <<now, order, props, listeners, spyAttr, callVars, spyVars>>
  /\ UNCHANGED <<lastCalls, invocations, text, callReturn, ran, lastEmit, waiter, reads, wrapper>>

\* the pairs of the tracking scenarios: the tag and the universal selector
\* name the same element by two different strings
TrackPairs == {<<<<"x">>, "onClick">>, <<<<"*">>, "onClick">>, <<<<"x">>, "value">>}

NextClear ==
  \/ \E pair \in TrackPairs : SetProperty(pair[1], pair[2], Fn(<<>>))
  \/ \E n \in Nodes, name \in PropNames : Invoke(n, name, ArgList(invocations + 1))
  \/ \E pair \in TrackPairs : ClearFunctionCalls(pair[1], pair[2])
  \/ \E pair \in TrackPairs : GetFunctionCalls(pair[1], pair[2])

SpecClear == InitTrack /\ [][NextClear]_vars

\* every tracked key's list holds the invocations since the key was last set
\* or cleared, and so did every list getFunctionCalls returned
CountsSinceClear ==
  /\ \A key \in DOMAIN invoked : CallsMatch(FunctionCalls(key), invoked[key])
  /\ lastCalls.complete

\* a clear empties the key's list, leaves the element's properties alone,
\* and changes nothing in the registry when the key was never tracked
ClearEmpties ==
  \A pair \in TrackPairs :
    ClearFunctionCalls(pair[1], pair[2]) =>
      /\ CallsOf(helpers', CallId(pair[1], pair[2])) = <<>>
      /\ props' = props
      /\ CallId(pair[1], pair[2]) \notin DOMAIN invoked => helpers' = helpers

\* C22: after clearFunctionCalls the key's history is empty, the stand-in
\* stays installed so that k later invocations give exactly k records, and
\* clearing a key that was never tracked leaves the registry unchanged
C22_ClearFunctionCalls == []CountsSinceClear /\ [][ClearEmpties]_vars

\* a clear emptied a history that held a record, no set or clear followed,
\* and two later invocations were read back as two records
C22_Witness ==
  /\ lastOp.kind = "clearFunctionCalls"
  /\ marks.cleared # <<>> /\ marks.cleared = lastCalls.key
  /\ lastCalls.count = 2 /\ lastCalls.complete
  /\ Len(FunctionCalls(lastCalls.key)) = 2

\* the step sets, invokes or clears the tracked function of (sel, name)
Touches(sel, name) ==
  \/ SetProperty(sel, name, Fn(<<>>))
  \/ ClearFunctionCalls(sel, name)
  \/ \E n \in Nodes, prop \in PropNames :
       /\ props[n][prop] = Wrapper(Fn(<<>>), CallId(sel, name))
       /\ Invoke(n, prop, ArgList(invocations + 1))

\* such a step leaves the history of every other pair as it was
OthersKeepHistory ==
  \A pair \in TrackPairs :
    Touches(pair[1], pair[2]) =>
      \A other \in TrackPairs \ {pair} :
        CallsOf(helpers', CallId(other[1], other[2])) =
          CallsOf(helpers, CallId(other[1], other[2]))

\* C23: for two distinct (selector, propertyName) pairs, setting, invoking
\* or clearing the tracked function of one never changes the call history
\* returned for the other
C23_IndependentHistories == [][OthersKeepHistory]_vars

\* two pairs that name the same element by different selectors each keep
\* the record of their own invocation, next to a pair of another property
\* whose history was cleared
C23_Witness ==
  /\ Len(FunctionCalls(CallId(<<"x">>, "onClick"))) = 1
  /\ Len(FunctionCalls(CallId(<<"*">>, "onClick"))) = 1
  /\ FunctionCalls(CallId(<<"x">>, "onClick")) # FunctionCalls(CallId(<<"*">>, "onClick"))
  /\ CallId(<<"x">>, "value") \in DOMAIN invoked
  /\ FunctionCalls(CallId(<<"x">>, "value")) = <<>>
  /\ marks.cleared = CallId(<<"x">>, "value")

\* ==================================================== expectWithScreenshots
MaxAsserts == 2

\* const visualMatchers = [ ... ]
VisualMatchers ==
  { "toBeVisible", "toBeHidden", "toBeEnabled", "toBeDisabled", "toBeChecked",
    "toBeEditable", "toBeFocused", "toBeEmpty", "toBeAttached", "toContainText",
    "toHaveText", "toHaveValue", "toHaveValues", "toHaveAttribute", "toHaveClass",
    "toHaveCSS", "toHaveId", "toHaveCount", "toHaveAccessibleName",
    "toHaveAccessibleDescription", "toHaveRole" }
\* const skipScreenshotMethods = ['toHaveScreenshot', 'toMatchSnapshot']
SkipScreenshotMethods == {"toHaveScreenshot", "toMatchSnapshot"}

\* the members of an assertion object that the scenarios reach: matchers,
\* which are functions, and the chain modifier not, which is an object
Matchers ==
  { "toBeVisible", "toHaveText", "toHaveCount", "toBeAttached", "toHaveScreenshot",
    "toMatchSnapshot", "toBe" }
TypeofMember(prop) == IF prop = "not" THEN "object" ELSE "function"

\* what expect() is given: a locator, the page, or a plain value
Subjects == {"locator", "page", "value"}
\* isLocator(value): an object with a screenshot function, which the page
\* is as well
IsLocator(value) == value \in {"locator", "page"}

\* variant: every function member of the proxy is wrapped
GetWrapsEveryMethod(isProxy, prop) ==
  IF isProxy /\ TypeofMember(prop) = "function" THEN "wrapped" ELSE "original"

\* the get trap of the assertion proxy: which function (or object) a member
\* access gives; an assertion object made while the flag was off is no proxy
Get(isProxy, prop) ==
  IF ~isProxy THEN "original"
  ELSE IF TypeofMember(prop) # "function" THEN "original"
  ELSE IF prop \in SkipScreenshotMethods THEN "original"
  ELSE IF prop \notin VisualMatchers THEN "original"
  ELSE "wrapped"

\* expect(x).m is taken off the object expect returned; expect(x).not.m is
\* taken off what the member not gave, the inner object's own .not
Reach(isProxy, via, prop) ==
  IF via = "direct" THEN Get(isProxy, prop)
  ELSE IF Get(isProxy, "not") = "original" THEN Get(FALSE, prop)
  ELSE Get(isProxy, prop)

\* variant: no try / catch around the capture
CaptureUncaught(page, actual, outcome) ==
  IF page
  THEN [attempted |-> TRUE, target |-> IF IsLocator(actual) THEN actual ELSE "page",
        thrown |-> IF outcome = "ok" THEN "" ELSE outcome]
  ELSE [attempted |-> FALSE, target |-> "", thrown |-> ""]

\* if (page) { try { isLocator(actual) ? baseExpect(actual).toHaveScreenshot()
\*                                      : baseExpect(page).toHaveScreenshot() } catch {} }
Capture(page, actual, outcome) ==
  IF page
  THEN [attempted |-> TRUE, target |-> IF IsLocator(actual) THEN actual ELSE "page",
        thrown |-> ""]
  ELSE [attempted |-> FALSE, target |-> "", thrown |-> ""]

\* how a matcher call went: what it returned or threw, the order of the
\* real assertion and the capture, and the capture's target and outcome
Ran(ended, trace, target, capture) ==
  [result |-> ended, trace |-> trace, target |-> target, capture |-> capture]

\* the trace holds a capture
Captured(trace) == \E j \in 1..Len(trace) : trace[j] = "capture"

\* variant: the capture is taken before the real assertion runs
WrappedCapturesFirst(real, page, actual, outcome) ==
  LET shot == Capture(page, actual, outcome) IN
    IF shot.attempted
    THEN Ran(real, <<"capture", "assert">>, shot.target, outcome)
    ELSE Ran(real, <<"assert">>, "", "")

\* the function the get trap returns for a visual matcher: await the real
\* matcher (a failure leaves here), read the page context, capture, return
Wrapped(real, page, actual, outcome) ==
  IF real # "pass" THEN Ran(real, <<"assert">>, "", "")
  ELSE LET shot == Capture(page, actual, outcome) IN
         IF ~shot.attempted THEN Ran(real, <<"assert">>, "", "")
         ELSE IF shot.thrown # "" THEN Ran(shot.thrown, <<"assert", "capture">>, shot.target, outcome)
         ELSE Ran(real, <<"assert", "capture">>, shot.target, outcome)

\* the matcher itself
Original(real) == Ran(real, <<"assert">>, "", "")

\* setPageContext(page)
SetPageContext ==
  /\ wrapper' = [wrapper EXCEPT !.pageContext = TRUE]
  /\ UNCHANGED <<now, docVars, callVars, spyVars, bridgeError, trackVars, marks>>
  /\ UNCHANGED <<text, callReturn, ran, lastOp, lastEmit, waiter, reads>>

\* setAutoVrtEnabled(enabled)
SetAutoVrtEnabled(enabled) ==
  /\ wrapper' = [wrapper EXCEPT !.autoVrtEnabled = enabled]
  /\ UNCHANGED <<now, docVars, callVars, spyVars, bridgeError, trackVars, marks>>
  /\ UNCHANGED <<text, callReturn, ran, lastOp, lastEmit, waiter, reads>>

\* expectWithScreenshots(actual): the apply trap; the flag is read here, once
ExpectWithScreenshots(actual) ==
  /\ wrapper' = [wrapper EXCEPT !.made = TRUE, !.wrapped = wrapper.autoVrtEnabled,
                                !.actual = actual]
  /\ UNCHANGED <<now, docVars, callVars, spyVars, bridgeError, trackVars, marks>>
  /\ UNCHANGED <<text, callReturn, ran, lastOp, lastEmit, waiter, reads>>

\* await expect(actual).method(...) or await expect(actual).not.method(...)
\* on the assertion object made last; real is how the real matcher ends and
\* outcome how the capture primitive would end
Matcher(via, method, real, outcome) ==
  /\ wrapper.made
  /\ wrapper.calls < MaxAsserts
  /\ LET run == IF Reach(wrapper.wrapped, via, method) = "wrapped"
                THEN Wrapped(real, wrapper.pageContext, wrapper.actual, outcome)
                ELSE Original(real) IN
       wrapper' = [wrapper EXCEPT
                     !.calls = @ + 1,
                     !.captures = @ + (IF Captured(run.trace) THEN 1 ELSE 0),
                     !.last = [via |-> via, method |-> method, real |-> real,
                               result |-> run.result, trace |-> run.trace,
                               target |-> run.target, capture |-> run.capture,
                               context |-> wrapper.pageContext]]
  /\ UNCHANGED <<now, docVars, callVars, spyVars, bridgeError, trackVars, marks>>
  /\ UNCHANGED <<text, callReturn, ran, lastOp, lastEmit, waiter, reads>>

\* how the real matcher and the capture primitive can end
RealOutcomes == {"pass", "failure"}
CaptureOutcomes == {"ok", "noBaseline"}

NextExpect ==
  \/ SetPageContext
  \/ \E enabled \in BOOLEAN : SetAutoVrtEnabled(enabled)
  \/ \E actual \in Subjects : ExpectWithScreenshots(actual)
  \/ \E via \in {"direct", "not"}, method \in Matchers, real \in RealOutcomes,
        outcome \in CaptureOutcomes : Matcher(via, method, real, outcome)

SpecExpect == InitTrack /\ [][NextExpect]_vars

\* the step is a matcher call
MatcherStep == wrapper'.calls = wrapper.calls + 1

\* C24: a wrapped assertion method runs the real assertion first; when the
\* real assertion fails, the caller gets that failure and no capture is
\* attempted
RealAssertionFirst ==
  /\ wrapper.last.trace # <<>> => Head(wrapper.last.trace) = "assert"
  /\ wrapper.last.real = "failure" =>
       /\ wrapper.last.result = "failure"
       /\ wrapper.last.trace = <<"assert">>
FailureCapturesNothing ==
  MatcherStep /\ wrapper'.last.real = "failure" => wrapper'.captures = wrapper.captures
C24_RealAssertionFirst == []RealAssertionFirst /\ [][FailureCapturesNothing]_vars

\* a visual matcher on a proxy, with the page context set, failed; none was
\* captured, though an earlier call on the same object was
C24_Witness ==
  /\ wrapper.wrapped /\ wrapper.last.context
  /\ wrapper.last.via = "direct" /\ wrapper.last.method = "toBeVisible"
  /\ wrapper.last.real = "failure" /\ wrapper.last.result = "failure"
  /\ wrapper.calls = 2 /\ wrapper.captures = 1

\* C25: when the real assertion succeeds the wrapped call succeeds, whether
\* the capture succeeds or fails; the capture's failure never reaches the
\* caller
C25_CaptureFailureSwallowed ==
  /\ wrapper.last.real = "pass" => wrapper.last.result = "pass"
  /\ wrapper.last.result \in {"", wrapper.last.real}

\* a capture was attempted and failed, and the call passed
C25_Witness ==
  /\ wrapper.last.trace = <<"assert", "capture">>
  /\ wrapper.last.capture = "noBaseline"
  /\ wrapper.last.real = "pass" /\ wrapper.last.result = "pass"

\* C26: toHaveScreenshot and toMatchSnapshot on a wrapped assertion object
\* never trigger a capture by the wrapper, whatever the flag and the page
\* context are
NoSecondaryCapture ==
  MatcherStep /\ wrapper'.last.method \in {"toHaveScreenshot", "toMatchSnapshot"} =>
    /\ wrapper'.captures = wrapper.captures
    /\ wrapper'.last.trace = <<"assert">>
C26_NoSecondaryCapture == [][NoSecondaryCapture]_vars

\* toHaveScreenshot passed on a proxy with the page context set
C26_Witness ==
  /\ wrapper.wrapped /\ wrapper.last.context
  /\ wrapper.last.via = "direct" /\ wrapper.last.method = "toHaveScreenshot"
  /\ wrapper.last.real = "pass" /\ wrapper.captures = 0 /\ wrapper.calls = 1

\* C27: toHaveCount and toBeAttached are not in the allow-list, so that
\* invoking them on a wrapped assertion object never triggers a capture
C27_CountsAndPresenceExcluded ==
  wrapper.last.method \in {"toHaveCount", "toBeAttached"} =>
    ~Captured(wrapper.last.trace)

\* C28: a capture is attempted if and only if the flag was enabled when the
\* factory was invoked, the page context is set, the method is in the
\* allow-list and the real assertion succeeded; then exactly one capture is
\* attempted, after the assertion, on the subject when it is a locator and
\* on the page otherwise
CaptureExactlyWhen ==
  MatcherStep =>
    LET qualifies == /\ wrapper.wrapped
                     /\ wrapper.pageContext
                     /\ wrapper'.last.method \in VisualMatchers
                     /\ wrapper'.last.real = "pass" IN
      /\ wrapper'.captures = wrapper.captures + (IF qualifies THEN 1 ELSE 0)
      /\ qualifies =>
           /\ wrapper'.last.trace = <<"assert", "capture">>
           /\ wrapper'.last.target = IF wrapper.actual = "locator" THEN "locator" ELSE "page"
C28_CaptureExactlyWhen == [][CaptureExactlyWhen]_vars

\* ============================================ resolution at every remote call
\* getProperty as the scenario calls it: by selector and through a locator,
\* a single attempt
ResolveOptions ==
  { [form |-> f, sel |-> <<"x">>, prop |-> "value", hasPredicate |-> FALSE,
     pred |-> "none", timeout |-> 0, interval |-> 1] : f \in {"selector", "locator"} }

\* the document starts with element 1; the page removes and inserts
\* elements while the test reads, sets, calls and emits by the selector x
InitResolve ==
  /\ InitDocument
  /\ order = <<1>>
  /\ InitCall
  /\ InitBridges

NextResolve ==
  \/ \E n \in Nodes : Attach(n)
  \/ \E n \in Nodes : Detach(n)
  \/ \E o \in ResolveOptions : GetProperty(o)
  \/ AttemptRead
  \/ \E d \in 0..MaxLatency : AttemptReturn(d)
  \/ SetProperty(<<"x">>, "value", Num(1))
  \/ Call(<<"x">>, "add", <<Num(1), Num(2)>>)
  \/ Emit(<<"x">>, "change", Undefined, NoOptions)

SpecResolve == InitResolve /\ [][NextResolve]_vars

\* the element that matches x now: every node is an <x>, so it is the
\* first one in document order
MatchingNow == IF order = <<>> THEN NoNode ELSE Head(order)

\* each remote call works on the element that matches when it runs
ActsOnMatching ==
  /\ AttemptRead =>
       pending' = IF MatchingNow = NoNode THEN Throw(ElementNotFound(opts.sel))
                  ELSE Ok(Marshal(props[MatchingNow][opts.prop]))
  /\ SetProperty(<<"x">>, "value", Num(1)) =>
       IF MatchingNow = NoNode
       THEN props' = props /\ bridgeError' = ElementNotFound(<<"x">>)
       ELSE props' = [props EXCEPT ![MatchingNow]["value"] = Num(1)]
  /\ Call(<<"x">>, "add", <<Num(1), Num(2)>>) =>
       IF MatchingNow = NoNode
       THEN text' = text /\ callReturn'.out = Throw(ElementNotFound(<<"x">>))
       ELSE /\ text' = [text EXCEPT ![MatchingNow] = 3]
            /\ ran'.receiver = MatchingNow
            /\ callReturn'.out = Ok(Num(3))
  /\ Emit(<<"x">>, "change", Undefined, NoOptions) =>
       IF MatchingNow = NoNode
       THEN lastEmit'.node = NoNode /\ bridgeError' = ElementNotFound(<<"x">>)
       ELSE lastEmit'.node = MatchingNow /\ dispatched' = dispatched + 1

\* C29: resolution happens at every remote call: after the element matching
\* a selector is removed and another matching element is inserted, each
\* getProperty, setProperty, call and emit for the selector works on the
\* element that matches at call time, never on the earlier node
C29_ResolvedAtEveryCall == [][ActsOnMatching]_vars

\* element 1 is gone and element 2 is in its place; only element 2 was set,
\* read, called and given the event
C29_Witness ==
  /\ order = <<2>>
  /\ props[1]["value"] = Undefined /\ props[2]["value"] = Num(1)
  /\ pc = "returned" /\ result = Ok(Num(1))
  /\ text[1] = 0 /\ text[2] # 0 /\ ran.receiver = 2
  /\ lastEmit.node = 2

\* ================================================================== render
\* render(component) once a document is there: page.setContent(html) writes
\* the new markup into the page. Elements, their properties and their
\* listeners are gone and the scenario's elements are there anew; accessors
\* the host holds stay with it. Nothing here resets window.__componentHelpers:
\* setContent writes into the same window, and whether the window's globals
\* outlive that is the browser's doing, so both outcomes are taken
Render(kept) ==
  /\ order' = <<1, 2>>
  /\ props' = [n \in Nodes |-> [name \in PropNames |-> Undefined]]
  /\ listeners' = [n \in Nodes |-> <<>>]
  /\ spyAttr' = [n \in Nodes |-> ""]
  /\ text' = [n \in Nodes |-> 0]
  /\ helpers' = IF kept THEN helpers ELSE NoHelpers
  /\ spies' = [i \in 1..Len(spies) |-> [spies[i] EXCEPT !.node = NoNode]]
  /\ marks' = [marks EXCEPT !.rendered = TRUE, !.spies = Len(spies)]
  /\ lastOp' = [kind |-> "render", sel |-> <<>>, submissions |-> 0]
  /\ UNCHANGED <<now, callVars, nextSpyId, lastRead, dispatched, bridgeError, trackVars>>
  /\ UNCHANGED <<callReturn, ran, lastEmit, waiter, reads, wrapper>>

\* the scenario: events and callback invocations, MaxEvents of them in all,
\* around a render
NextRender ==
  \/ SpyOnSelector(<<"x">>, "change")
  \/ dispatched + invocations < MaxEvents /\ Dispatch(1, "change")
  \/ \E i \in 1..MaxSpies : ReadSpy(i)
  \/ SetProperty(<<"x">>, "onClick", Fn(<<>>))
  \/ dispatched + invocations < MaxEvents /\ Invoke(1, "onClick", ArgList(invocations + 1))
  \/ GetFunctionCalls(<<"x">>, "onClick")
  \/ \E kept \in BOOLEAN : Render(kept)

SpecRender == InitSpy /\ [][NextRender]_vars

\* window.__componentHelpers?.events?.[eventId] ?? [], in registry h
EventsOf(h, eventId) ==
  IF h.exists /\ h.hasEvents /\ eventId \in DOMAIN h.events THEN h.events[eventId] ELSE <<>>

\* an accessor obtained before the render, whose key was not activated
\* again, returns no record when called after the render
AccessorAfterRender ==
  \A i \in 1..MaxSpies :
    ( /\ ReadSpy(i)
      /\ marks.rendered /\ i <= marks.spies
      /\ \A j \in (marks.spies + 1)..Len(spies) : spies[j].key # spies[i].key )
    => lastRead'.count = 0

\* right after a render every accessor and every getFunctionCalls would
\* find an empty list
RenderWipes ==
  (\E kept \in BOOLEAN : Render(kept)) =>
    /\ \A i \in 1..Len(spies) : EventsOf(helpers', spies[i].key) = <<>>
    /\ \A key \in DOMAIN invoked : CallsOf(helpers', key) = <<>>

\* getFunctionCalls after a render, with no setProperty since, returns no
\* record
GetAfterRender ==
  GetFunctionCalls(<<"x">>, "onClick") /\ lastOp.kind = "render" => lastCalls'.count = 0

\* C30: the registry lives and dies with the remote document: after a new
\* render every accessor obtained before it and every getFunctionCalls
\* returns an empty list, not records of the old document, and neither fails
C30_RegistryDiesWithDocument ==
  [][RenderWipes /\ AccessorAfterRender /\ GetAfterRender]_vars

\* ============================================ setProperty, then getProperty
\* getProperty without predicate, by selector and through a locator
RoundTripOptions == { o \in GetOptions : ~o.hasPredicate }

\* the test sets the property of the one element, any number of times, and
\* then reads it; nothing writes while the read is under way
NextRoundTrip ==
  \/ \E value \in TargetValues : pc = "idle" /\ SetProperty(<<"x">>, "value", value)
  \/ \E o \in RoundTripOptions : GetProperty(o)
  \/ AttemptRead
  \/ \E d \in 0..MaxLatency : AttemptReturn(d)
  \/ WaitBetweenRetries

SpecRoundTrip == InitTrack /\ [][NextRoundTrip]_vars

LaterAttemptStarts == pc = "attempt" /\ pc' = "inflight" /\ log # <<>>

\* C32: retry starts no attempt once timeout has elapsed since the start of
\* the first attempt: a wait longer than the remaining budget grants no
\* extra attempt, and no value is returned by an attempt begun after the
\* deadline
C32_NoAttemptAfterDeadline ==
  [][LaterAttemptStarts => now - startTime < opts.timeout]_vars

\* attempts and delays take turns in the log, an attempt first
Alternates ==
  /\ \A j \in 1..Len(log) : log[j] = IF j % 2 = 1 THEN "attempt" ELSE "delay"
  /\ pc \in {"returned", "failed"} => Len(log) % 2 = 1
  /\ pc = "wait" => Len(log) % 2 = 1
  /\ pc \in {"attempt", "inflight"} => Len(log) % 2 = 0

\* the first attempt is made at once, every delay is the caller's interval,
\* and a step of retry changes nothing but the call's own state
RetryStep ==
  /\ (pc = "attempt" /\ pc' = "inflight" /\ log = <<>>) => now = startTime
  /\ (Len(log') = Len(log) + 1 /\ log'[Len(log')] = "delay") => now' - now = opts.interval
  /\ (pc # "idle" /\ pc' # pc) => UNCHANGED <<docVars, bridgeVars, opts, startTime>>

\* C33: in every run of retry attempts and delay calls strictly alternate,
\* starting with an attempt made at once: one delay of the caller's
\* interval, the same each time, between two attempts, none after the last
\* attempt, and nothing else is invoked
C33_AttemptsAndDelaysAlternate == []Alternates /\ [][RetryStep]_vars

\* a run of three attempts and two delays has ended
C33_Witness ==
  /\ pc \in {"returned", "failed"}
  /\ log = <<"attempt", "delay", "attempt", "delay", "attempt">>

\* ========================================================= retry terminates
\* the element is there and its component sets the property now and then;
\* every attempt comes back and every wait ends
NextRetry ==
  \/ \E value \in {Undefined, Num(0), Num(2)} : ~Settled /\ ComponentSets(1, "value", value)
  \/ \E o \in GetOptions : GetProperty(o)
  \/ AttemptRead
  \/ \E d \in 0..MaxLatency : AttemptReturn(d)
  \/ WaitBetweenRetries

SpecRetry ==
  /\ InitTrack
  /\ [][NextRetry]_vars
  /\ WF_vars(AttemptRead)
  /\ WF_vars(\E d \in 0..MaxLatency : AttemptReturn(d))
  /\ WF_vars(WaitBetweenRetries)

\* a run that has ended made at least one attempt, and one that failed did
\* so because of the clock, not because of the number of attempts
EndsByValueOrClock ==
  Settled =>
    /\ Len(log) >= 1
    /\ pc = "failed" => (Elapsed >= opts.timeout /\ Head(result.msg) = "Timeout ")
    /\ pc = "returned" => result.ok

\* C34: retry always terminates: when every attempt finishes and every
\* delay advances the clock, a run returns the operation's value or raises
\* Timeout after finitely many attempts, at least one of them even with
\* timeout 0, and no limit on their number other than the clock
C34_RetryTerminates ==
  /\ (pc # "idle") ~> Settled
  /\ []EndsByValueOrClock

\* a run with timeout 0 made its one attempt and raised Timeout
C34_Witness ==
  /\ pc = "failed" /\ opts.timeout = 0 /\ log = <<"attempt">>

\* ======================================================= repeated activation
\* an occurrence on a spied element lengthens the list of each spy's key by
\* one record
OneRecordPerOccurrence ==
  (dispatched' = dispatched + 1 /\ Len(spies') = Len(spies)) =>
    \A i \in 1..Len(spies) :
      spies'[i].seen # spies[i].seen =>
        Len(EventsOf(helpers', spies[i].key)) = Len(EventsOf(helpers, spies[i].key)) + 1

\* C35: when spyOn is activated more than once for one (selector, event) in
\* one document, each later occurrence still adds exactly one record to the
\* key's list, so that every accessor of the key reports k records after k
\* occurrences since the last activation
C35_OneRecordAfterReactivation == [][OneRecordPerOccurrence]_vars

\* -------------------------------------------- replaced elements
\* an element with a spy and a tracked callback is removed and another one
\* matching the same selector takes its place; the scenario has MaxEvents
\* events and invocations in all
NextReplace ==
  \/ \E n \in Nodes : pc = "idle" /\ Attach(n)
  \/ \E n \in Nodes : pc = "idle" /\ Detach(n)
  \/ SpyOnSelector(<<"x">>, "change")
  \/ \E n \in Nodes : dispatched + invocations < MaxEvents /\ Dispatch(n, "change")
  \/ SetProperty(<<"x">>, "onClick", Fn(<<>>))
  \/ \E n \in Nodes :
       dispatched + invocations < MaxEvents /\ Invoke(n, "onClick", ArgList(invocations + 1))

SpecReplace == InitTrack /\ [][NextReplace]_vars

\* the element the selector matched at activation i has been replaced
Replaced(i) == QuerySelector(<<"x">>) \notin {NoNode, spies[i].node}

\* the activations of key made on node n
ActivationsOn(key, n) == { i \in 1..Len(spies) : spies[i].key = key /\ spies[i].node = n }

\* after a replacement, an occurrence is recorded exactly when it is on the
\* element the selector matches now
SpyFollowsSelector ==
  \A n \in Nodes :
    Dispatch(n, "change") =>
      \A i \in 1..Len(spies) :
        (SoleActivation(i) /\ Replaced(i)) =>
          Len(EventsOf(helpers', spies[i].key)) =
            Len(EventsOf(helpers, spies[i].key)) + (IF n = QuerySelector(<<"x">>) THEN 1 ELSE 0)

\* the element the selector matches holds the stand-in of the tracked key
StandInFollowsSelector ==
  (CallId(<<"x">>, "onClick") \in DOMAIN invoked /\ QuerySelector(<<"x">>) # NoNode) =>
    props[QuerySelector(<<"x">>)]["onClick"] = Fn(CallId(<<"x">>, "onClick"))

\* C36 as stated: a selector-keyed spy and stand-in follow the selector: after
\* the element is replaced by another one matching the selector, events on
\* and invocations through the new element are recorded under the key, and
\* events on the detached old node are not
C36_FollowsSelector == []StandInFollowsSelector /\ [][SpyFollowsSelector]_vars

\* an occurrence on node n adds one record per activation made on n to the
\* key's list, attached or not, and nothing to the list of a key activated
\* on other nodes only
SpyStaysWithNode ==
  \A n \in Nodes :
    Dispatch(n, "change") =>
      \A i \in 1..Len(spies) :
        Len(EventsOf(helpers', spies[i].key)) =
          Len(EventsOf(helpers, spies[i].key)) + Cardinality(ActivationsOn(spies[i].key, n))

\* an invocation through the stand-in a node holds adds one call record under
\* the stand-in's key, attached or not
StandInStaysWithNode ==
  \A n \in Nodes :
    Invoke(n, "onClick", ArgList(invocations + 1)) =>
      /\ props[n]["onClick"] = Fn(CallId(<<"x">>, "onClick"))
      /\ Len(CallsOf(helpers', CallId(<<"x">>, "onClick"))) =
           Len(CallsOf(helpers, CallId(<<"x">>, "onClick"))) + 1

\* an element comes to hold a stand-in only by a setProperty that resolved to it
StandInOnlyBySetProperty ==
  \A n \in Nodes :
    props'[n]["onClick"] # props[n]["onClick"] =>
      /\ lastOp'.kind = "setProperty"
      /\ n = QuerySelector(lastOp'.sel)

\* C36, amended: a selector-keyed spy and stand-in stay with the node the
\* selector matched at activation: events on that node and invocations
\* through it are recorded under the key even after it is detached, and the
\* element that replaces it is neither spied on nor given the stand-in until
\* spyOn / setProperty is called again
C36_StaysWithNode ==
  [][SpyStaysWithNode /\ StandInStaysWithNode /\ StandInOnlyBySetProperty]_vars

\* the spied and tracked element 1 has been replaced by element 2; an event
\* on each and an invocation through the old one since: one record, one call
C36_Witness ==
  /\ order = <<2>>
  /\ Len(spies) = 1 /\ spies[1].node = 1 /\ Len(spies[1].seen) = 1
  /\ dispatched = 2
  /\ Len(GetEvents(spies[1].key)) = 1
  /\ props[2]["onClick"].t # "function"
  /\ invocations = 1
  /\ Len(FunctionCalls(CallId(<<"x">>, "onClick"))) = 1

\* -------------------------------------------- waitForEvent, once settled
\* waitForEvent beside a spy on the same element: the registry is in use
\* while the promise is pending and after it has settled
NextWaitSpied ==
  \/ \E event \in EventNames : SpyOnSelector(<<"x">>, event)
  \/ \E sel \in Selectors, event \in EventNames, timeout \in 0..MaxTimeout :
       WaitForEvent(sel, event, timeout)
  \/ \E type \in EventNames : Dispatch(1, type)
  \/ TimerFires
  \/ Tick

SpecWaitSpied == InitSpy /\ [][NextWaitSpied]_vars

WaitSettled == waiter.pc \in {"resolved", "rejected"}

\* a settled waitForEvent has neither listener nor timer
SettledIsCleanedUp == WaitSettled => (~waiter.listening /\ waiter.timer = -1)

\* nothing that happens after the promise has settled touches it
SettledIsInert == WaitSettled => waiter' = waiter

\* a step of waitForEvent or of its timer leaves the registry alone, and an
\* occurrence adds to the registry what the spies' listeners add, no more
WaitLeavesRegistry ==
  /\ waiter' # waiter /\ dispatched' = dispatched => helpers' = helpers
  /\ \A type \in EventNames :
       Dispatch(1, type) =>
         \A i \in 1..Len(spies) :
           Len(EventsOf(helpers', spies[i].key)) =
             Len(EventsOf(helpers, spies[i].key)) + Cardinality(ActivationsOn(spies[i].key, 1)
                                                     \cap {j \in 1..Len(spies) : spies[j].event = type})

\* on a selector that matches nothing the promise is rejected in the same
\* step, and no timer is set
NoElementFailsAtOnce ==
  \A sel \in Selectors, event \in EventNames, timeout \in 0..MaxTimeout :
    (WaitForEvent(sel, event, timeout) /\ QuerySelector(sel) = NoNode) =>
      /\ waiter'.pc = "rejected"
      /\ waiter'.msg = ElementNotFound(sel)
      /\ waiter'.timer = -1 /\ ~waiter'.listening

\* C37: once waitForEvent has settled, by event or by timeout, its listener
\* is off the element and its timer is not pending, so later occurrences and
\* later timer ticks have no effect; waitForEvent never writes the registry,
\* and on a selector matching no element it fails at once without a timer
C37_SettledIsCleanedUp ==
  /\ []SettledIsCleanedUp
  /\ [][SettledIsInert /\ WaitLeavesRegistry /\ NoElementFailsAtOnce]_vars

\* resolved by the first event; the clock has since passed the instant the
\* timer was set for, and a spy has recorded that event and two later ones
C37_Witness ==
  /\ waiter.pc = "resolved" /\ waiter.record.detail = Num(1) /\ waiter.calls = 1
  /\ now > waiter.due
  /\ dispatched = 3
  /\ \E i \in 1..Len(spies) : Len(GetEvents(spies[i].key)) = 3

\* -------------------------------------------- lazy initialization
\* spies and tracked callbacks side by side on one element; the event named
\* "onClick" gives the events sub-map the key the function-call sub-map has
\* for the property of that name
LazyEvents == {"onClick", "change"}

NextLazy ==
  \/ \E event \in LazyEvents : SpyOnSelector(<<"x">>, event)
  \/ \E type \in LazyEvents : dispatched + invocations < MaxEvents /\ Dispatch(1, type)
  \/ \E name \in PropNames : SetProperty(<<"x">>, name, Fn(<<>>))
  \/ SetPropertyOnLocator(<<"x">>, "onClick", Fn(<<>>))
  \/ \E name \in PropNames :
       dispatched + invocations < MaxEvents /\ Invoke(1, name, ArgList(invocations + 1))

SpecLazy == InitTrack /\ [][NextLazy]_vars

\* every event list but that of key keeps its records
OtherEventsKept(key) ==
  \A e \in DOMAIN helpers.events \ {key} : EventsOf(helpers', e) = helpers.events[e]

\* every function-call history but that of key keeps its records
OtherCallsKept(key) ==
  \A c \in DOMAIN helpers.calls \ {key} : CallsOf(helpers', c) = helpers.calls[c]

\* an activation, or a function property set, empties its own key's list in
\* its own sub-map and changes no other list of either sub-map
LazyInitKeepsOthers ==
  /\ \A event \in LazyEvents :
       SpyOnSelector(<<"x">>, event) =>
         /\ EventsOf(helpers', EventId(<<"x">>, event)) = <<>>
         /\ OtherEventsKept(EventId(<<"x">>, event))
         /\ OtherCallsKept(<<>>)
  /\ \A name \in PropNames :
       SetProperty(<<"x">>, name, Fn(<<>>)) =>
         /\ CallsOf(helpers', CallId(<<"x">>, name)) = <<>>
         /\ OtherCallsKept(CallId(<<"x">>, name))
         /\ OtherEventsKept(<<>>)
  /\ SetPropertyOnLocator(<<"x">>, "onClick", Fn(<<>>)) =>
       /\ CallsOf(helpers', LocatorCallId("onClick")) = <<>>
       /\ OtherCallsKept(LocatorCallId("onClick"))
       /\ OtherEventsKept(<<>>)

\* C38: lazy initialization of the registry never wipes existing state:
\* activating a spy for one key, or setting a function property for one key,
\* changes only that key's list in its own sub-map; every other event list
\* and function-call history, one under the same key string in the other
\* sub-map included, is left unchanged
C38_LazyInitKeepsOthers == [][LazyInitKeepsOthers]_vars

\* "x:onClick" holds one event record and one call record; a spy for
\* "x:change" and a handle-bound stand-in have been set up since
C38_Witness ==
  /\ Len(GetEvents(EventId(<<"x">>, "onClick"))) = 1
  /\ Len(FunctionCalls(CallId(<<"x">>, "onClick"))) = 1
  /\ EventId(<<"x">>, "onClick") = CallId(<<"x">>, "onClick")
  /\ Len(spies) = 2 /\ spies[2].key = EventId(<<"x">>, "change")
  /\ props[1]["onClick"] = Fn(LocatorCallId("onClick"))
  /\ LocatorCallId("onClick") \in DOMAIN helpers.calls

\* -------------------------------------------- chain modifiers
\* a qualifying matcher reached through .not is followed by one capture,
\* after the assertion
ModifierCaptures ==
  (/\ MatcherStep
   /\ wrapper'.last.via = "not"
   /\ wrapper.wrapped /\ wrapper.pageContext
   /\ wrapper'.last.method \in VisualMatchers
   /\ wrapper'.last.real = "pass") =>
    /\ wrapper'.captures = wrapper.captures + 1
    /\ wrapper'.last.trace = <<"assert", "capture">>

\* C39: with instrumentation enabled, an allow-listed assertion reached
\* through a chain modifier of the assertion object (expect(x).not.m()) that
\* succeeds is followed by a capture exactly as the unmodified form is
C39_ModifierCaptures == [][ModifierCaptures]_vars
====
